---- MODULE Spec2Model ----
(***************************************************************************)
(* juliet::sync::Map (include/sync/map.hpp): the read-mostly concurrent    *)
(* map ported from golang sync.Map.  Threads call Store, Load,             *)
(* LoadOrStore, Delete, Range and Reset on one Map.  Every access to       *)
(* shared memory that another thread can observe is one step: the copy of  *)
(* read_ under its shared lock, each load / compare_exchange of an Entry's *)
(* state_, each access of an Entry's ptr_ under the Entry's mu_.  A        *)
(* critical section of Map::mu_ that makes at most one such access is one  *)
(* step; the others hold mu_ over several steps.  The write of             *)
(* read_.readOnly.amended under mu_ alone (lines 240, 332) races with the  *)
(* copies of read_: a copy sees the old or the new flag, as if taken       *)
(* before or after the write.                                              *)
(*                                                                         *)
(* Entries and tables are heap objects held by shared_ptr: an object no    *)
(* reference reaches is freed and its slot reused.  An Entry is bound to   *)
(* one key for life (it is only ever put under the key it was made or      *)
(* found under), so the entries of each key have slots of their own.       *)
(*                                                                         *)
(* A failed assertion or the dereference of a null shared_ptr ends the     *)
(* process: the thread is at "Crash" and nothing moves any more.           *)
(*                                                                         *)
(* Init draws a workload, the calls each thread chooses from without end.  *)
(* An observer (gk, and exp / clean in each call) keeps what the calls     *)
(* that ran without a conflicting call beside them have settled for each   *)
(* key; the properties compare the results of such calls with it.          *)
(*                                                                         *)
(* The other classes of include/sync have a specification each, started    *)
(* with nobody calling the Map: Once (OnceSpec), SingleCall with DeferGuard *)
(* (SingleSpec), List (ListSpec), HashTable (HashSpec) and CachedMap        *)
(* (CachedSpec).  FairSpec is Spec with every thread scheduled.             *)
(***************************************************************************)
EXTENDS Integers, FiniteSets, Sequences, TLC

\* ---------------------------------------------------------------- bounds
\* Entry objects alive at once for one key, InnerMap objects alive at once
MaxSlots == 4
MaxTables == 5
\* threads that call Once::Call, SingleCall and ChangeNumber
MaxCallers == 3
\* values given to List::Add in all
MaxAdds == 3
\* keys of the HashTable
MaxHKeys == 2
\* cached::Entry objects alive at once for one key
MaxCSlots == 3
\* keys of the CachedMap
MaxCKeys == 1

Threads == {1, 2}
Keys == {1, 2}
Values == {1, 2}

Callers == 1..MaxCallers
HKeys == 1..MaxHKeys
CSlots == 1..MaxCSlots
CKeys == 1..MaxCKeys
Slots == 1..MaxSlots
TableIds == 1..MaxTables
\* nullptr for an EntryPtr, a shared_ptr<InnerMap> and a shared_ptr<Value>
NoEntry == 0
NoTable == 0
NoVal == 0
NoThread == 0
NoKey == 0

VARIABLES
  ent,           \* heap of Entry objects, by key: state_ and ptr_
  tables,        \* heap of InnerMap objects: key -> EntryPtr (NoEntry: no such key)
  read_m,        \* Map::read_.readOnly.m
  read_amended,  \* Map::read_.readOnly.amended
  dirty_,        \* Map::dirty_
  misses_,       \* Map::misses_
  mu_,           \* owner of Map::mu_
  th,            \* each thread's call: position, locals, results
  menu,          \* the workload: the calls each thread chooses from
  gk             \* observer: what the calls that ran undisturbed settled for each key

\* sync/once.hpp: one Once object and its callers
VARIABLES
  done_,         \* Once::done_
  onceMu_,       \* owner of Once::mu_
  oc,            \* each caller of Once::Call: position, what it did
  ran            \* observer: how often the task was started, and whether it is over

\* sync/single_call.hpp and defer.hpp: one flag and the callers of SingleCall
\* on it; ChangeNumber of test/defer_test.cpp
VARIABLES
  doCall,        \* the std::atomic_bool handed to SingleCall
  sc             \* each caller: position, its DeferGuard's routine_, results

\* sync/list.hpp: one List and its callers
VARIABLES
  listMut_,      \* List::listMut_: the exclusive owner and the shared owners
  list_,         \* List::list_
  bufferMut_,    \* owner of List::bufferMut_
  buffer_,       \* List::buffer_
  lc,            \* each caller: position, locals, what its callback was given
  lo             \* observer: values added so far, values ForEachRemove dropped

\* sync/hash_table.hpp: one HashTable and its callers
VARIABLES
  map_,          \* HashTable::map_: key -> value (NoVal: no such key)
  hashMu_,       \* owner of HashTable::mu_
  hc             \* each caller: position, locals of RemoveIf, what its predicate saw

\* sync/cached_map.hpp: one CachedMap and its callers
VARIABLES
  write_,        \* CachedMap::write_ (its map_): key -> value (NoVal: no such key)
  readMap_,      \* CachedMap::read_->map_: key -> cached::Entry (NoEntry: not cached)
  centry,        \* heap of cached::Entry objects, by key: val_
  cc             \* each caller: position, locals, results

mapVars == <<ent, tables, read_m, read_amended, dirty_, misses_, mu_, th, menu, gk>>
onceVars == <<done_, onceMu_, oc, ran>>
singleVars == <<doCall, sc>>
listVars == <<listMut_, list_, bufferMut_, buffer_, lc, lo>>
hashVars == <<map_, hashMu_, hc>>
cachedVars == <<write_, readMap_, centry, cc>>
vars == <<mapVars, onceVars, singleVars, listVars, hashVars, cachedVars>>

\* ------------------------------------------------------------ Entry, tables
\* Entry(Ptr ptr): state_ is kValue exactly when ptr is set
EntryCtor(p) == [state |-> IF p # NoVal THEN "kValue" ELSE "kNull", ptr |-> p]
\* NewEntry that loses the value
NewEntryNull(v) == EntryCtor(NoVal)
\* Entry::NewEntry(val)
NewEntry(v) == EntryCtor(v)
FreeEntry == [state |-> "kNull", ptr |-> NoVal]

\* ReadOnly(): a fresh InnerMap with no key
EmptyTable == [k \in Keys |-> NoEntry]

KeysOf(tb) == {k \in Keys : tb[k] # NoEntry}
TableSize(tb) == Cardinality(KeysOf(tb))

\* -------------------------------------------------------------------- calls
Call(op, k, v) == [op |-> op, key |-> k, val |-> v]
LoadOf(K) == {Call("Load", k, NoVal) : k \in K}
StoreOf(K, V) == {Call("Store", k, v) : k \in K, v \in V}
LoadOrStoreOf(K, V) == {Call("LoadOrStore", k, v) : k \in K, v \in V}
DeleteOf(K) == {Call("Delete", k, NoVal) : k \in K}
RangeCalls == {Call("Range", NoKey, NoVal)}
ResetCalls == {Call("Reset", NoKey, NoVal)}


\* ---------------------------------------------------------------- observer
\* What is known of a key: a value (v in Values), absent (v = NoVal), or nothing
\* (known = FALSE) while a call that may change the key is running, or after
\* two of them ran together.
\* by names the call that put the value there or took it away ("None": no call)
Unknown == [known |-> FALSE, v |-> NoVal, by |-> "None"]
Known(v, by) == [known |-> TRUE, v |-> v, by |-> by]
NoExp == [k \in Keys |-> Unknown]

\* What a call knows of a call that returned beside it: nothing ("None"); for
\* a Store, the raw of the one Reset(raw) that returned while it ran ("Reset");
\* for a Reset(raw), the key and value of the one Store that returned while it
\* ran ("Store"); "Void" once a further call that may change the Map is made.
NoCo == [kind |-> "None", key |-> NoKey, val |-> NoVal, raw |-> [k \in Keys |-> NoVal]]
Void == [NoCo EXCEPT !.kind = "Void"]

\* ------------------------------------------------------------------ threads
EmptyRaw == [k \in Keys |-> NoVal]
Idle == [pc |-> "Idle", op |-> "None", key |-> NoKey, val |-> NoVal,
         rm |-> NoTable, entry |-> NoEntry, cur |-> "kNull",
         todo |-> {}, ik |-> NoKey, hasRaw |-> FALSE, raw |-> EmptyRaw,
         raw0 |-> EmptyRaw, ret |-> FALSE, out |-> NoVal, seen |-> {},
         path |-> "none", exp |-> NoExp, clean |-> {}, co |-> NoCo]

InFlight(r) == r.pc \notin {"Idle", "Ret", "Crash"}
Crashed == \E t \in Threads : th[t].pc = "Crash"

\* What a call returned is local to its caller: no other thread moves between
\* the return and the caller's next step.
Returned(t) == \A u \in Threads \ {t} : th[u].pc # "Ret"

\* thread t can take a step: the process is alive
Runs(t) == ~Crashed /\ Returned(t)
\* thread t is at pc in its call
At(t, pc) == Runs(t) /\ th[t].pc = pc
\* thread t, between two calls, may make the call op(k, v) of its workload
CanBegin(t, op, k, v) == At(t, "Idle") /\ Call(op, k, v) \in menu[t]

\* the key of the Entry a thread holds in its local `entry`
EKey(r) == IF r.ik # NoKey THEN r.ik ELSE r.key

\* the keys a call may change
Touches(r) ==
  IF r.op \in {"Store", "LoadOrStore", "Delete"} THEN {r.key}
  ELSE IF r.op = "Reset" THEN Keys ELSE {}

\* the keys of ks on which no other thread has a changing call in flight
Quiet(t, ks) ==
  {k \in ks : \A u \in Threads \ {t} : ~(InFlight(th[u]) /\ k \in Touches(th[u]))}

\* A call of t that may change the keys ks starts: what the calls in flight on
\* other threads expected of those keys is void.
Disturb(t, ks) ==
  [u \in Threads |->
     IF u # t /\ InFlight(th[u])
     THEN [th[u] EXCEPT !.exp = [k \in Keys |-> IF k \in ks THEN Unknown ELSE @[k]],
                        !.clean = @ \ ks]
     ELSE th[u]]

\* the record of a call of t as it starts: op(key, val), reading the keys rd
\* and changing the keys wr
Begin(t, op, key, val, rd, wr) ==
  [Idle EXCEPT !.op = op, !.key = key, !.val = val,
               !.exp = [k \in Keys |-> IF k \in rd \cup wr THEN gk[k] ELSE Unknown],
               !.clean = Quiet(t, wr)]

\* the call returns: its locals are destroyed, its results stay to be read
Return(r, ret, out) ==
  [r EXCEPT !.pc = "Ret", !.ret = ret, !.out = out, !.rm = NoTable,
            !.entry = NoEntry, !.cur = "kNull", !.todo = {}, !.ik = NoKey]

\* an assertion fails, or a null shared_ptr is dereferenced: the process dies
Crash(r) == [r EXCEPT !.pc = "Crash"]

\* gk once a call that left v under each key of ks has returned; did: the call
\* itself put v there, or took the value away
Settle(g, r, ks, v, did) ==
  [k \in Keys |->
     IF k \in ks /\ k \in r.clean
     THEN Known(v, IF did THEN r.op
                  ELSE IF r.exp[k].known /\ r.exp[k].v = v THEN r.exp[k].by
                  ELSE "None")
     ELSE g[k]]

\* gk while a call that may change the keys ks runs
Unsettle(ks) == [k \in Keys |-> IF k \in ks THEN Unknown ELSE gk[k]]

\* --------------------------------------------------------------------- heap
LiveTables(rm, d, T) == ({rm, d} \cup {T[t].rm : t \in Threads}) \ {NoTable}

LiveEntries(tb, lt, T, k) ==
  ({tb[i][k] : i \in lt} \cup {T[t].entry : t \in {u \in Threads : EKey(T[u]) = k}})
    \ {NoEntry}

FreeTables == TableIds \ LiveTables(read_m, dirty_, th)
FreeSlots(k) == Slots \ LiveEntries(tables, LiveTables(read_m, dirty_, th), th, k)
HeapRoom == FreeTables # {} /\ \A k \in Keys : FreeSlots(k) # {}

\* std::make_shared: the lowest free slot
Lowest(S) == CHOOSE x \in S : \A y \in S : x <= y

\* in the step to the records T, thread t returns from a call of op / makes a
\* call that may change the Map
Returns(T, t, op) == th[t].pc # "Ret" /\ T[t].pc = "Ret" /\ T[t].op = op
Changes(T, t) ==
  th[t].pc = "Idle" /\ T[t].op \in {"Store", "LoadOrStore", "Delete", "Reset"}

\* what the call of thread u knows of the calls beside it after the step to T
Beside(T, u) ==
  LET r == T[u]
      seen == IF r.co.kind = "None" THEN r.co ELSE Void
  IN  IF ~InFlight(r) \/ th[u].pc = "Idle" THEN r.co
      ELSE IF r.op = "Store"
      THEN IF \E t \in Threads \ {u} : Returns(T, t, "Reset")
           THEN LET t == CHOOSE t \in Threads \ {u} : Returns(T, t, "Reset")
                IN  IF r.co.kind = "None" /\ T[t].hasRaw
                    THEN [NoCo EXCEPT !.kind = "Reset", !.raw = T[t].raw]
                    ELSE Void
           ELSE IF \E t \in Threads \ {u} : Changes(T, t) THEN seen
           ELSE r.co
      ELSE IF r.op = "Reset" /\ r.hasRaw
      THEN IF \E t \in Threads \ {u} : Returns(T, t, "Store")
           THEN LET t == CHOOSE t \in Threads \ {u} : Returns(T, t, "Store")
                IN  IF r.co.kind = "None"
                    THEN [NoCo EXCEPT !.kind = "Store", !.key = T[t].key, !.val = T[t].val]
                    ELSE Void
           ELSE IF \E t \in Threads \ {u} : Changes(T, t) THEN seen
           ELSE r.co
      ELSE r.co

\* The next state.  shared_ptr frees what no reference reaches any more.
Commit(T, rm, am, d, ms, m, tb, en, g) ==
  /\ th' = [u \in Threads |-> [T[u] EXCEPT !.co = Beside(T, u)]]
  /\ read_m' = rm
  /\ read_amended' = am
  /\ dirty_' = d
  /\ misses_' = ms
  /\ mu_' = m
  /\ gk' = g
  /\ menu' = menu
  /\ UNCHANGED <<onceVars, singleVars, listVars, hashVars, cachedVars>>
  /\ LET lt == LiveTables(rm, d, T)
         tb2 == [i \in TableIds |-> IF i \in lt THEN tb[i] ELSE EmptyTable]
     IN  /\ tables' = tb2
         /\ ent' = [k \in Keys |-> [i \in Slots |->
                      IF i \in LiveEntries(tb2, lt, T, k) THEN en[k][i] ELSE FreeEntry]]

\* a step of thread t that changes its own record (to r) and the heap of entries
StepE(t, r, en) ==
  Commit([th EXCEPT ![t] = r], read_m, read_amended, dirty_, misses_, mu_, tables, en, gk)

\* the same, with the owner of mu_ and the observer
StepRet(t, r, en, m, g) ==
  Commit([th EXCEPT ![t] = r], read_m, read_amended, dirty_, misses_, m, tables, en, g)

\* the lock_guard of a returning call is destroyed: mu_ is released if held
Unlock(t) == IF mu_ = t THEN NoThread ELSE mu_

\* the Entry a thread holds, and its update
Ent(r) == ent[EKey(r)][r.entry]
WithState(r, s) == [ent EXCEPT ![EKey(r)][r.entry].state = s]
WithPtr(r, p) == [ent EXCEPT ![EKey(r)][r.entry].ptr = p]

\* ---------------------------------------------------------------- workloads
\* one thread makes every call of the interface, on every key
Alone == <<LoadOf(Keys) \cup StoreOf(Keys, Values) \cup LoadOrStoreOf(Keys, Values)
             \cup DeleteOf(Keys) \cup RangeCalls \cup ResetCalls,
           {}>>
\* two threads race on one key
Racing == <<StoreOf({1}, {1}) \cup LoadOf({1}) \cup LoadOrStoreOf({1}, {2}),
            DeleteOf({1}) \cup LoadOf({1})>>
\* each thread has a key of its own
Apart == <<StoreOf({1}, Values) \cup LoadOf({1}) \cup DeleteOf({1}) \cup LoadOrStoreOf({1}, {1}),
           StoreOf({2}, {2}) \cup LoadOf({2}) \cup DeleteOf({2})>>
\* stores of fresh keys by two threads, and Range
Ranging == <<StoreOf({1}, {1}) \cup DeleteOf({1}) \cup RangeCalls,
             StoreOf({2}, {2}) \cup DeleteOf({2})>>

\* one thread works on a key while the other resets the Map
Resetting == <<StoreOf({1}, {1}) \cup LoadOf({1}) \cup DeleteOf({1}), ResetCalls>>

Workloads == {Alone, Racing, Apart, Ranging, Resetting}

\* Map(): read_ holds a fresh empty table, dirty_ is null
MapStart ==
  /\ ent = [k \in Keys |-> [i \in Slots |-> FreeEntry]]
  /\ tables = [i \in TableIds |-> EmptyTable]
  /\ read_m = 1
  /\ read_amended = FALSE
  /\ dirty_ = NoTable
  /\ misses_ = 0
  /\ mu_ = NoThread
  /\ th = [t \in Threads |-> Idle]
  /\ gk = [k \in Keys |-> Known(NoVal, "None")]

\* a caller of Once::Call between two calls
OnceIdle == [pc |-> "Idle", slow |-> FALSE, did |-> FALSE, threw |-> FALSE]
\* Once(): done_(false)
OnceStart ==
  /\ done_ = FALSE
  /\ onceMu_ = NoThread
  /\ oc = [t \in Callers |-> OnceIdle]
  /\ ran = [started |-> 0, over |-> 0]

\* a caller of SingleCall or ChangeNumber between two calls
SingleIdle == [pc |-> "Idle", op |-> "None", routine_ |-> FALSE, cancel |-> FALSE,
               ret |-> FALSE, threw |-> FALSE, calls |-> 0, routines |-> 0]
\* the flag is false before the first call (single_call.hpp, line 25)
SingleStart ==
  /\ doCall = FALSE
  /\ sc = [t \in Callers |-> SingleIdle]

\* a caller of the List between two calls
ListIdle == [pc |-> "Idle", op |-> "None", val |-> NoVal, buffer |-> <<>>, it |-> 0,
             count |-> 0, given |-> <<>>, pre |-> 0]
\* List(std::list<Type>&&) of an empty list
ListStart ==
  /\ listMut_ = [excl |-> NoThread, shared |-> {}]
  /\ list_ = <<>>
  /\ bufferMut_ = NoThread
  /\ buffer_ = <<>>
  /\ lc = [t \in Callers |-> ListIdle]
  /\ lo = [added |-> 0, dropped |-> {}]

\* a caller of the HashTable between two calls
HashIdle == [pc |-> "Idle", op |-> "None", order |-> <<>>, it |-> 0, count |-> 0,
             pred |-> {}, evals |-> [k \in HKeys |-> "no"], before |-> [k \in HKeys |-> NoVal],
             status |-> "None", past |-> FALSE]
\* HashTable() = default: no key
HashStart ==
  /\ map_ = [k \in HKeys |-> NoVal]
  /\ hashMu_ = NoThread
  /\ hc = [t \in Threads |-> HashIdle]

\* a caller of the CachedMap between two calls
CachedIdle == [pc |-> "Idle", op |-> "None", key |-> NoKey, val |-> NoVal,
               entry |-> NoEntry, status |-> "None", ret |-> FALSE, out |-> NoVal,
               alone |-> FALSE]
\* CachedMap(): an empty read cache, an empty write table
CachedStart ==
  /\ write_ = [k \in CKeys |-> NoVal]
  /\ readMap_ = [k \in CKeys |-> NoEntry]
  /\ centry = [k \in CKeys |-> [i \in CSlots |-> NoVal]]
  /\ cc = [t \in Threads |-> CachedIdle]

Init ==
  /\ menu \in Workloads
  /\ MapStart
  /\ OnceStart
  /\ SingleStart
  /\ ListStart
  /\ HashStart
  /\ CachedStart

\* nobody calls the Map
NoCalls == <<{}, {}>>
\* the start of the runs of Once, SingleCall and List
UtilInit ==
  /\ menu = NoCalls
  /\ MapStart
  /\ OnceStart
  /\ SingleStart
  /\ ListStart
  /\ HashStart
  /\ CachedStart

\* ------------------------------------------------------------- Map::MissLocked
\* the test with <= for <: the promotion comes one miss late
MissPromotesLate(ms, size) == ~(ms <= size)

\* the promotion test of MissLocked, on the incremented counter
MissPromotes(ms, size) == ~(ms < size)

\* a promotion that publishes the old table again and drops dirty_
PromotedLost == <<read_m, FALSE, NoTable, 0>>

\* a promotion that leaves the published table amended
PromotedAmended == <<dirty_, TRUE, NoTable, 0>>

\* MissLocked, lines 440-442: dirty_ is published as read_, not amended;
\* dirty_ is null and misses_ 0
Promoted == <<dirty_, FALSE, NoTable, 0>>

\* MissLocked under mu_, dirty_ being the table d:
\* <<read.m, read.amended, dirty_, misses_>> after it
MissLocked(d) ==
  IF MissPromotes(misses_ + 1, TableSize(d))
  THEN Promoted
  ELSE <<read_m, read_amended, dirty_, misses_ + 1>>

\* ------------------------------------------------------------------ Map::Load
\* Load(key, value), lines 254-259: the copy of read_ and the lookup in it
LoadBegin(t, k) ==
  /\ CanBegin(t, "Load", k, NoVal)
  /\ LET r == Begin(t, "Load", k, NoVal, {k}, {})
         e == tables[read_m][k]
     IN  IF e # NoEntry
         THEN StepE(t, [r EXCEPT !.pc = "Load_state", !.entry = e, !.path = "fast"], ent)
         ELSE IF read_amended
         THEN StepE(t, [r EXCEPT !.pc = "Load_lock"], ent)
         ELSE StepE(t, Return([r EXCEPT !.path = "fast"], FALSE, NoVal), ent)

\* a miss is recorded only if dirty_ has not got the key either
LoadMissesIfAbsent(found) == ~found
\* Load, lines 266-270: MissLocked() is called whether find succeeded or not
LoadMisses(found) == TRUE

\* lines 260-272: under mu_, the lookup again, then in dirty_, and the miss
LoadLock(t) ==
  /\ At(t, "Load_lock")
  /\ mu_ = NoThread
  /\ LET r == th[t]
         e == tables[read_m][r.key]
     IN  IF e # NoEntry
         THEN StepE(t, [r EXCEPT !.pc = "Load_state", !.entry = e, !.path = "slow_read"], ent)
         ELSE IF ~read_amended
         THEN StepE(t, Return([r EXCEPT !.path = "slow_none"], FALSE, NoVal), ent)
         ELSE IF dirty_ = NoTable
         THEN StepE(t, Crash(r), ent)
         ELSE LET d == tables[dirty_][r.key]
                  ml == IF LoadMisses(d # NoEntry) THEN MissLocked(tables[dirty_])
                        ELSE <<read_m, read_amended, dirty_, misses_>>
                  r2 == [r EXCEPT !.path = IF ml[3] = NoTable THEN "promoted" ELSE "miss"]
                  r3 == IF d # NoEntry
                        THEN [r2 EXCEPT !.pc = "Load_state", !.entry = d]
                        ELSE Return(r2, FALSE, NoVal)
              IN  Commit([th EXCEPT ![t] = r3], ml[1], ml[2], ml[3], ml[4], mu_,
                         tables, ent, gk)

\* Load that takes an expunged Entry for one with a value
LoadsNullOnly(s) == s = "kNull"

\* Entry::Load, line 48: the states in which Load finds nothing
LoadsNothing(s) == s \in {"kNull", "kExpunged"}

\* Entry::Load, lines 47-50: the load of state_
LoadState(t) ==
  /\ At(t, "Load_state")
  /\ LET r == th[t]
     IN  IF LoadsNothing(Ent(r).state)
         THEN StepE(t, Return(r, FALSE, NoVal), ent)
         ELSE StepE(t, [r EXCEPT !.pc = "Load_ptr"], ent)

\* Entry::Load, lines 51-52, and Map::Load, lines 275-279: ptr_ is read and
\* dereferenced
LoadPtr(t) ==
  /\ At(t, "Load_ptr")
  /\ LET r == th[t]
         p == Ent(r).ptr
     IN  IF p = NoVal
         THEN StepE(t, Crash(r), ent)
         ELSE StepE(t, Return(r, TRUE, p), ent)

\* ----------------------------------------------------------------- Map::Store
\* Store(key, value), lines 212-216: the copy of read_ and the lookup in it
StoreBegin(t, k, v) ==
  /\ CanBegin(t, "Store", k, v)
  /\ LET r == Begin(t, "Store", k, v, {k}, {k})
         e == tables[read_m][k]
         r2 == IF e # NoEntry
               THEN [r EXCEPT !.pc = "TS_load", !.entry = e, !.path = "fast"]
               ELSE [r EXCEPT !.pc = "St_lock"]
     IN  Commit([Disturb(t, {k}) EXCEPT ![t] = r2], read_m, read_amended, dirty_,
                misses_, mu_, tables, ent, Unsettle({k}))

\* TryStore that stores into an expunged Entry as into any other
TryStoreRefusesNone(s) == FALSE
\* Entry::TryStore, lines 58-60: if (cur_state == kExpunged) return false
TryStoreRefuses(s) == s = "kExpunged"

\* Entry::TryStore, lines 56-60: the load of state_ and the test of the loop
TryStoreLoad(t) ==
  /\ At(t, "TS_load")
  /\ LET r == th[t]
         s == Ent(r).state
     IN  IF TryStoreRefuses(s)
         THEN StepE(t, [r EXCEPT !.pc = "St_lock", !.entry = NoEntry], ent)
         ELSE StepE(t, [r EXCEPT !.pc = "TS_cas", !.cur = s], ent)

\* Entry::TryStore, lines 58-61: compare_exchange_strong(cur_state, kValue)
TryStoreCas(t) ==
  /\ At(t, "TS_cas")
  /\ LET r == th[t]
         s == Ent(r).state
     IN  IF s = r.cur
         THEN StepE(t, [r EXCEPT !.pc = "TS_ptr", !.cur = "kNull"], WithState(r, "kValue"))
         ELSE IF TryStoreRefuses(s)
         THEN StepE(t, [r EXCEPT !.pc = "St_lock", !.entry = NoEntry, !.cur = "kNull"], ent)
         ELSE StepE(t, [r EXCEPT !.cur = s], ent)

\* Entry::TryStore, lines 62-64: ptr_ is set under the Entry's mu_
TryStorePtr(t) ==
  /\ At(t, "TS_ptr")
  /\ LET r == th[t]
     IN  StepRet(t, Return(r, TRUE, NoVal), WithPtr(r, r.val), mu_,
                 Settle(gk, r, {r.key}, r.val, TRUE))

\* the new Entry is made and put nowhere
InsertNowhere(tb, en, k, v) == <<tb, en>>

\* the new Entry is put into the published table
InsertPublished(tb, en, k, v) ==
  LET e == Lowest(FreeSlots(k))
  IN  <<[tb EXCEPT ![read_m][k] = e], [en EXCEPT ![k][e] = NewEntry(v)]>>

\* (*dirty_)[key] = NewEntry(value): <<tables, ent>> with the new Entry
InsertNew(tb, en, k, v) ==
  LET e == Lowest(FreeSlots(k))
  IN  <<[tb EXCEPT ![dirty_][k] = e], [en EXCEPT ![k][e] = NewEntry(v)]>>

\* DirtyLocked, lines 446-451, entered by thread-record r: a fresh dirty_, and
\* the entries of read_ still to copy.  <<record, dirty_>>
DirtyLockedStart(r) ==
  IF dirty_ # NoTable
  THEN <<[r EXCEPT !.pc = "Amend"], dirty_>>
  ELSE LET todo == KeysOf(tables[read_m])
       IN  <<[r EXCEPT !.pc = IF todo = {} THEN "Amend" ELSE "TE_load", !.todo = todo],
             Lowest(FreeTables)>>

\* Store, lines 222-244: mu_ is taken, read_ and dirty_ are looked up again
StoreLock(t) ==
  /\ At(t, "St_lock")
  /\ mu_ = NoThread
  /\ HeapRoom
  /\ LET r == th[t]
         e == tables[read_m][r.key]
         d == IF dirty_ # NoTable THEN tables[dirty_][r.key] ELSE NoEntry
     IN  IF e # NoEntry
         THEN StepRet(t, [r EXCEPT !.pc = "UX_cas", !.entry = e, !.path = "slow_read"],
                      ent, t, gk)
         ELSE IF d # NoEntry
         THEN StepRet(t, [r EXCEPT !.pc = "SL_load", !.entry = d, !.path = "slow_dirty"],
                      ent, t, gk)
         ELSE IF ~read_amended
         THEN LET ds == DirtyLockedStart([r EXCEPT !.path = "slow_new"])
              IN  Commit([th EXCEPT ![t] = ds[1]], read_m, read_amended, ds[2],
                         misses_, t, tables, ent, gk)
         ELSE IF dirty_ = NoTable
         THEN StepE(t, Crash(r), ent)
         ELSE LET ins == InsertNew(tables, ent, r.key, r.val)
              IN  Commit([th EXCEPT ![t] = Return([r EXCEPT !.path = "slow_new"], TRUE, NoVal)],
                         read_m, read_amended, dirty_, misses_, mu_, ins[1], ins[2],
                         Settle(gk, r, {r.key}, r.val, TRUE))

\* an Entry found expunged is copied all the same
ExpungesNever(s) == FALSE
\* whether DirtyLocked leaves an entry out of dirty_: TryExpungeLocked's result
\* for the state s it found or made
Expunges(s) == s = "kExpunged"

\* DirtyLocked, lines 452-458, entering Entry::TryExpungeLocked, line 140: the
\* next entry of read_ (in no fixed order) and the load of its state_
TryExpungeLoad(t) ==
  /\ At(t, "TE_load")
  /\ \E k2 \in th[t].todo :
       LET r == th[t]
           e2 == tables[read_m][k2]
           s == ent[k2][e2].state
           rest == r.todo \ {k2}
       IN  IF s = "kNull"
           THEN StepE(t, [r EXCEPT !.pc = "TE_cas", !.ik = k2, !.entry = e2], ent)
           ELSE Commit([th EXCEPT ![t] =
                          [r EXCEPT !.pc = IF rest = {} THEN "Amend" ELSE "TE_load",
                                    !.todo = rest]],
                       read_m, read_amended, dirty_, misses_, mu_,
                       IF Expunges(s) THEN tables
                       ELSE [tables EXCEPT ![dirty_][k2] = e2],
                       ent, gk)

\* Entry::TryExpungeLocked, lines 141-146: compare_exchange_strong(kNull,
\* kExpunged); DirtyLocked, lines 455-457: the entry is copied unless expunged
TryExpungeCas(t) ==
  /\ At(t, "TE_cas")
  /\ LET r == th[t]
         s == Ent(r).state
         s2 == IF s = "kNull" THEN "kExpunged" ELSE s
         rest == r.todo \ {r.ik}
     IN  Commit([th EXCEPT ![t] =
                   [r EXCEPT !.pc = IF rest = {} THEN "Amend" ELSE "TE_load",
                             !.todo = rest, !.ik = NoKey, !.entry = NoEntry]],
                read_m, read_amended, dirty_, misses_, mu_,
                IF Expunges(s2) THEN tables
                ELSE [tables EXCEPT ![dirty_][r.ik] = r.entry],
                WithState(r, s2), gk)

\* Store, lines 240-245: read_.readOnly.amended = true, written in place with
\* no lock of read_, then the new Entry under dirty_; mu_ is released
StoreAmend(t) ==
  /\ At(t, "Amend")
  /\ th[t].op = "Store"
  /\ HeapRoom
  /\ LET r == th[t]
         ins == InsertNew(tables, ent, r.key, r.val)
     IN  Commit([th EXCEPT ![t] = Return(r, TRUE, NoVal)],
                read_m, TRUE, dirty_, misses_, NoThread, ins[1], ins[2],
                Settle(gk, r, {r.key}, r.val, TRUE))

\* where Store (lines 232) and LoadOrStore (line 316) go on after UnexpungeLocked
AfterUnexpunge(r) == IF r.op = "Store" THEN "SL_load" ELSE "TL_load"

\* Entry::UnexpungeLocked, lines 150-151: compare_exchange_strong(kExpunged, kNull)
UnexpungeCas(t) ==
  /\ At(t, "UX_cas")
  /\ LET r == th[t]
     IN  IF Ent(r).state = "kExpunged"
         THEN StepE(t, [r EXCEPT !.pc = "UX_ptr"], WithState(r, "kNull"))
         ELSE StepE(t, [r EXCEPT !.pc = AfterUnexpunge(r)], ent)

\* the unexpunged Entry is not put back
ResurrectNot(tb, k, e) == tb

\* Store, line 230 (LoadOrStore, line 314): (*dirty_)[key] = entry
Resurrect(tb, k, e) == [tb EXCEPT ![dirty_][k] = e]

\* Entry::UnexpungeLocked, lines 152-154: ptr_ = nullptr; then Store, lines
\* 229-230 (LoadOrStore, lines 313-314): the entry goes back under dirty_
UnexpungePtr(t) ==
  /\ At(t, "UX_ptr")
  /\ LET r == th[t]
     IN  IF dirty_ = NoTable
         THEN StepE(t, Crash(r), WithPtr(r, NoVal))
         ELSE Commit([th EXCEPT ![t] = [r EXCEPT !.pc = AfterUnexpunge(r),
                                                 !.path = "unexpunged"]],
                     read_m, read_amended, dirty_, misses_, mu_,
                     Resurrect(tables, r.key, r.entry), WithPtr(r, NoVal), gk)

\* Entry::StoreLocked, line 70: the load of state_
StoreLockedLoad(t) ==
  /\ At(t, "SL_load")
  /\ StepE(t, [th[t] EXCEPT !.pc = "SL_cas", !.cur = Ent(th[t]).state], ent)

\* Entry::StoreLocked, line 72: compare_exchange_strong(cur_state, kValue)
StoreLockedCas(t) ==
  /\ At(t, "SL_cas")
  /\ LET r == th[t]
         s == Ent(r).state
     IN  IF s = r.cur
         THEN StepE(t, [r EXCEPT !.pc = "SL_ptr", !.cur = "kNull"], WithState(r, "kValue"))
         ELSE StepE(t, [r EXCEPT !.cur = s], ent)

\* Entry::StoreLocked, lines 73-75: ptr_ is set; Store returns and releases mu_
StoreLockedPtr(t) ==
  /\ At(t, "SL_ptr")
  /\ LET r == th[t]
     IN  StepRet(t, Return(r, TRUE, NoVal), WithPtr(r, r.val), NoThread,
                 Settle(gk, r, {r.key}, r.val, TRUE))

\* ----------------------------------------------------------- Map::LoadOrStore
\* LoadOrStore(key, value, actual), lines 293-297: the copy of read_, the lookup
LoadOrStoreBegin(t, k, v) ==
  /\ CanBegin(t, "LoadOrStore", k, v)
  /\ LET r == Begin(t, "LoadOrStore", k, v, {k}, {k})
         e == tables[read_m][k]
         r2 == IF e # NoEntry
               THEN [r EXCEPT !.pc = "TL_load", !.entry = e, !.path = "fast"]
               ELSE [r EXCEPT !.pc = "Lo_lock"]
     IN  Commit([Disturb(t, {k}) EXCEPT ![t] = r2], read_m, read_amended, dirty_,
                misses_, mu_, tables, ent, Unsettle({k}))

\* TryLoadOrStore answered ok = false.  On the fast path (lines 299-304) Map::
\* LoadOrStore goes on to take mu_; under mu_ (lines 316-318, 323-326) it
\* dereferences the null actual.
TryLoadOrStoreFails(t, r) ==
  IF mu_ = t THEN Crash(r)
  ELSE [r EXCEPT !.pc = "Lo_lock", !.entry = NoEntry, !.cur = "kNull"]

\* Entry::TryLoadOrStore, lines 92-99: the load of state_
TryLoadOrStoreLoad(t) ==
  /\ At(t, "TL_load")
  /\ LET r == th[t]
         s == Ent(r).state
     IN  IF s = "kExpunged" THEN StepE(t, TryLoadOrStoreFails(t, r), ent)
         ELSE IF s # "kNull" THEN StepE(t, [r EXCEPT !.pc = "TL_ptrR"], ent)
         ELSE StepE(t, [r EXCEPT !.pc = "TL_cas", !.cur = s], ent)

\* Entry::TryLoadOrStore, lines 102-114: compare_exchange_strong(kNull, kValue)
\* and the tests of the state it found instead
TryLoadOrStoreCas(t) ==
  /\ At(t, "TL_cas")
  /\ LET r == th[t]
         s == Ent(r).state
     IN  IF s = r.cur
         THEN StepE(t, [r EXCEPT !.pc = "TL_ptrW", !.cur = "kNull"], WithState(r, "kValue"))
         ELSE IF s = "kExpunged" THEN StepE(t, TryLoadOrStoreFails(t, r), ent)
         ELSE IF s # "kNull" THEN StepE(t, [r EXCEPT !.pc = "TL_ptrR", !.cur = "kNull"], ent)
         ELSE StepE(t, [r EXCEPT !.cur = s], ent)

\* after TryLoadOrStore answered (actual, loaded): LoadOrStore returns (lines
\* 300-302, 317-319), or first counts the miss (lines 324-327)
TryLoadOrStoreDone(t, r, actual, loaded, en) ==
  IF actual = NoVal
  THEN StepE(t, Crash(r), en)
  ELSE IF mu_ = t /\ r.path = "slow_dirty"
  THEN StepE(t, [r EXCEPT !.pc = "Lo_miss", !.ret = loaded, !.out = actual,
                          !.entry = NoEntry], en)
  ELSE StepRet(t, Return(r, loaded, actual), en, Unlock(t),
               Settle(gk, r, {r.key}, actual, ~loaded))

\* Entry::TryLoadOrStore, lines 104-106: ptr_ is set to the caller's value
TryLoadOrStorePtrW(t) ==
  /\ At(t, "TL_ptrW")
  /\ LET r == th[t]
     IN  TryLoadOrStoreDone(t, r, r.val, FALSE, WithPtr(r, r.val))

\* Entry::TryLoadOrStore, lines 97-98 and 112-113: ptr_ is read
TryLoadOrStorePtrR(t) ==
  /\ At(t, "TL_ptrR")
  /\ LET r == th[t]
     IN  TryLoadOrStoreDone(t, r, Ent(r).ptr, TRUE, ent)

\* LoadOrStore, lines 324-327: MissLocked after the entry was found in dirty_
LoadOrStoreMiss(t) ==
  /\ At(t, "Lo_miss")
  /\ LET r == th[t]
         ml == MissLocked(tables[dirty_])
     IN  Commit([th EXCEPT ![t] = Return(r, r.ret, r.out)], ml[1], ml[2], ml[3], ml[4],
                NoThread, tables, ent, Settle(gk, r, {r.key}, r.out, ~r.ret))

\* LoadOrStore, lines 306-338: mu_ is taken, read_ and dirty_ are looked up again
LoadOrStoreLock(t) ==
  /\ At(t, "Lo_lock")
  /\ mu_ = NoThread
  /\ HeapRoom
  /\ LET r == th[t]
         e == tables[read_m][r.key]
         d == IF dirty_ # NoTable THEN tables[dirty_][r.key] ELSE NoEntry
     IN  IF e # NoEntry
         THEN StepRet(t, [r EXCEPT !.pc = "UX_cas", !.entry = e, !.path = "slow_read"],
                      ent, t, gk)
         ELSE IF d # NoEntry
         THEN StepRet(t, [r EXCEPT !.pc = "TL_load", !.entry = d, !.path = "slow_dirty"],
                      ent, t, gk)
         ELSE IF ~read_amended
         THEN LET ds == DirtyLockedStart([r EXCEPT !.path = "slow_new"])
              IN  Commit([th EXCEPT ![t] = ds[1]], read_m, read_amended, ds[2],
                         misses_, t, tables, ent, gk)
         ELSE IF dirty_ = NoTable
         THEN StepE(t, Crash(r), ent)
         ELSE LET ins == InsertNew(tables, ent, r.key, r.val)
              IN  Commit([th EXCEPT ![t] = Return([r EXCEPT !.path = "slow_new"], FALSE, r.val)],
                         read_m, read_amended, dirty_, misses_, mu_, ins[1], ins[2],
                         Settle(gk, r, {r.key}, r.val, TRUE))

\* LoadOrStore, lines 330-338: read_.readOnly.amended = true, the new Entry
\* under dirty_, *actual = value; mu_ is released
LoadOrStoreAmend(t) ==
  /\ At(t, "Amend")
  /\ th[t].op = "LoadOrStore"
  /\ HeapRoom
  /\ LET r == th[t]
         ins == InsertNew(tables, ent, r.key, r.val)
     IN  Commit([th EXCEPT ![t] = Return(r, FALSE, r.val)],
                read_m, TRUE, dirty_, misses_, NoThread, ins[1], ins[2],
                Settle(gk, r, {r.key}, r.val, TRUE))

\* ---------------------------------------------------------------- Map::Delete
\* Delete returns false: the entry is missing, or Entry::Delete found no value
DeleteNone(r) == Return(r, FALSE, NoVal)

\* Delete(key, value), lines 344-349: the copy of read_, the lookup
DeleteBegin(t, k) ==
  /\ CanBegin(t, "Delete", k, NoVal)
  /\ LET r == Begin(t, "Delete", k, NoVal, Keys, {k})
         e == tables[read_m][k]
         r2 == IF e # NoEntry
               THEN [r EXCEPT !.pc = "DE_load", !.entry = e, !.path = "fast"]
               ELSE IF read_amended THEN [r EXCEPT !.pc = "Dl_lock"]
               ELSE DeleteNone([r EXCEPT !.path = "fast"])
     IN  Commit([Disturb(t, {k}) EXCEPT ![t] = r2], read_m, read_amended, dirty_,
                misses_, mu_, tables, ent,
                IF r2.pc = "Ret" THEN Settle(Unsettle({k}), r, {k}, NoVal, FALSE)
                ELSE Unsettle({k}))

\* the mapping stays in dirty_
EraseNot(tb, k) == tb
\* Delete, line 359: dirty_->erase(it)
Erase_(tb, k) == [tb EXCEPT ![dirty_][k] = NoEntry]

\* Delete, lines 350-364: under mu_, the lookup again, then in dirty_ with the
\* erase, and the miss
DeleteLock(t) ==
  /\ At(t, "Dl_lock")
  /\ mu_ = NoThread
  /\ LET r == th[t]
         e == tables[read_m][r.key]
         absent == Settle(gk, r, {r.key}, NoVal, FALSE)
     IN  IF e # NoEntry
         THEN StepE(t, [r EXCEPT !.pc = "DE_load", !.entry = e, !.path = "slow_read"], ent)
         ELSE IF ~read_amended
         THEN StepRet(t, DeleteNone([r EXCEPT !.path = "slow_none"]), ent, mu_, absent)
         ELSE IF dirty_ = NoTable
         THEN StepE(t, Crash(r), ent)
         ELSE LET d == tables[dirty_][r.key]
                  erased == Erase_(tables, r.key)
                  ml == MissLocked(erased[dirty_])
                  r2 == [r EXCEPT !.path = IF ml[3] = NoTable THEN "promoted" ELSE "miss"]
                  r3 == IF d # NoEntry
                        THEN [r2 EXCEPT !.pc = "DE_load", !.entry = d]
                        ELSE DeleteNone(r2)
              IN  Commit([th EXCEPT ![t] = r3], ml[1], ml[2], ml[3], ml[4], mu_, erased,
                         ent, IF d # NoEntry THEN gk ELSE absent)

\* Entry::Delete, lines 119-123: the load of state_
EntryDeleteLoad(t) ==
  /\ At(t, "DE_load")
  /\ LET r == th[t]
         s == Ent(r).state
     IN  IF s \in {"kNull", "kExpunged"}
         THEN StepRet(t, DeleteNone(r), ent, mu_, Settle(gk, r, {r.key}, NoVal, FALSE))
         ELSE StepE(t, [r EXCEPT !.pc = "DE_cas", !.cur = s], ent)

\* Entry::Delete, lines 121-124: compare_exchange_strong(cur_state, kNull)
EntryDeleteCas(t) ==
  /\ At(t, "DE_cas")
  /\ LET r == th[t]
         s == Ent(r).state
     IN  IF s = r.cur
         THEN StepE(t, [r EXCEPT !.pc = "DE_ptr", !.cur = "kNull"], WithState(r, "kNull"))
         ELSE IF s \in {"kNull", "kExpunged"}
         THEN StepRet(t, DeleteNone(r), ent, mu_, Settle(gk, r, {r.key}, NoVal, FALSE))
         ELSE StepE(t, [r EXCEPT !.cur = s], ent)

\* Entry::Delete, lines 125-134: ptr_ is swapped out and dereferenced
EntryDeletePtr(t) ==
  /\ At(t, "DE_ptr")
  /\ LET r == th[t]
         p == Ent(r).ptr
     IN  IF p = NoVal
         THEN StepE(t, Crash(r), WithPtr(r, NoVal))
         ELSE StepRet(t, Return(r, TRUE, p), WithPtr(r, NoVal), mu_,
                      Settle(gk, r, {r.key}, NoVal, TRUE))

\* ----------------------------------------------------------------- Map::Range
\* the loop over *read.m (Range, line 415; Reset, line 384) starts on table rm
LoopStart(r, rm, pc) ==
  LET todo == KeysOf(tables[rm])
  IN  IF todo = {} THEN Return(r, TRUE, NoVal)
      ELSE [r EXCEPT !.pc = pc, !.rm = rm, !.todo = todo]

\* a loop that ends after its first entry
LoopNextStop(r, pc) == Return(r, TRUE, NoVal)

\* the loop goes to its next entry, or ends
LoopNext(r, pc) ==
  LET rest == r.todo \ {r.ik}
  IN  IF rest = {} THEN Return(r, TRUE, NoVal)
      ELSE [r EXCEPT !.pc = pc, !.todo = rest, !.ik = NoKey, !.entry = NoEntry]

\* Range(enumerator), lines 398-403: nothing to do for an empty enumerator;
\* else the copy of read_
RangeBegin(t, given) ==
  /\ CanBegin(t, "Range", NoKey, NoVal)
  /\ IF ~given
     THEN StepE(t, Return([Begin(t, "Range", NoKey, NoVal, {}, {}) EXCEPT !.path = "empty"],
                          TRUE, NoVal), ent)
     ELSE LET r == Begin(t, "Range", NoKey, NoVal, Keys, {})
          IN  IF read_amended
              THEN StepE(t, [r EXCEPT !.pc = "Rg_lock"], ent)
              ELSE StepE(t, LoopStart([r EXCEPT !.path = "clean"], read_m, "Rg_state"), ent)

\* Range, line 404: mu_ is taken
RangeLock(t) ==
  /\ At(t, "Rg_lock")
  /\ mu_ = NoThread
  /\ StepRet(t, [th[t] EXCEPT !.pc = "Rg_promote"], ent, t, gk)

\* a lock_guard that lives to the end of Range
KeepsGuard(t) == t

\* Range, line 412: the block of the lock_guard ends and mu_ is free
EndOfGuard(t) == NoThread

\* Range, lines 405-412: read_ is copied again and, if still amended, dirty_
\* becomes read_; the lock_guard's block ends and mu_ is released
RangePromote(t) ==
  /\ At(t, "Rg_promote")
  /\ LET r == th[t]
     IN  IF ~read_amended
         THEN StepRet(t, LoopStart([r EXCEPT !.path = "clean"], read_m, "Rg_state"), ent,
                      EndOfGuard(t), gk)
         ELSE IF dirty_ = NoTable
         THEN StepE(t, Crash(r), ent)
         ELSE Commit([th EXCEPT ![t] = LoopStart([r EXCEPT !.path = "promoted"], dirty_,
                                                 "Rg_state")],
                     dirty_, FALSE, NoTable, 0, EndOfGuard(t), tables, ent, gk)

\* Range, lines 415-418, entering Entry::Load, lines 47-50: the next entry of
\* the table (in no fixed order) and the load of its state_
RangeState(t) ==
  /\ At(t, "Rg_state")
  /\ \E k \in th[t].todo :
       LET r == [th[t] EXCEPT !.ik = k, !.entry = tables[th[t].rm][k]]
       IN  IF LoadsNothing(Ent(r).state)
           THEN StepE(t, LoopNext(r, "Rg_state"), ent)
           ELSE StepE(t, [r EXCEPT !.pc = "Rg_ptr"], ent)

\* Entry::Load, lines 51-52, and Range, line 419: ptr_ is read and dereferenced
\* for the enumerator
RangePtr(t) ==
  /\ At(t, "Rg_ptr")
  /\ LET r == th[t]
         p == Ent(r).ptr
     IN  IF p = NoVal
         THEN StepE(t, Crash(r), ent)
         ELSE StepE(t, [r EXCEPT !.pc = "Rg_call", !.out = p, !.seen = @ \cup {r.ik},
                                 !.entry = NoEntry], ent)

\* Range, lines 419-421: the enumerator runs on (ik, out) and answers go_on
RangeCall(t, go_on) ==
  /\ At(t, "Rg_call")
  /\ LET r == [th[t] EXCEPT !.out = NoVal]
     IN  IF go_on
         THEN StepE(t, LoopNext(r, "Rg_state"), ent)
         ELSE StepE(t, Return(r, FALSE, NoVal), ent)

\* ----------------------------------------------------------------- Map::Reset
\* a caller's map that already holds something
StaleRaw == [k \in Keys |-> IF k = 1 THEN 1 ELSE NoVal]
RawInputs == {EmptyRaw, StaleRaw}

\* Reset(raw), lines 370-383: under mu_, what read_ or (if amended) dirty_
\* holds is taken away and the Map is left empty; no loop without raw
ResetBegin(t, hasRaw, raw0) ==
  /\ CanBegin(t, "Reset", NoKey, NoVal)
  /\ mu_ = NoThread
  /\ HeapRoom
  /\ LET r == [Begin(t, "Reset", NoKey, NoVal, Keys, Keys) EXCEPT
                 !.hasRaw = hasRaw, !.raw = raw0, !.raw0 = raw0,
                 !.path = IF read_amended THEN "amended" ELSE "clean"]
         src == IF read_amended THEN dirty_ ELSE read_m
         r2 == IF ~hasRaw THEN Return(r, TRUE, NoVal)
               ELSE IF src = NoTable THEN Crash(r)
               ELSE LoopStart(r, src, "Rs_state")
     IN  Commit([Disturb(t, Keys) EXCEPT ![t] = r2], Lowest(FreeTables), FALSE,
                NoTable, 0, mu_, tables, ent,
                IF r2.pc = "Ret" THEN Settle(Unsettle(Keys), r, Keys, NoVal, TRUE)
                ELSE Unsettle(Keys))

\* Reset, lines 384-387, entering Entry::Load, lines 47-50
ResetState(t) ==
  /\ At(t, "Rs_state")
  /\ \E k \in th[t].todo :
       LET r == [th[t] EXCEPT !.ik = k, !.entry = tables[th[t].rm][k]]
           r2 == LoopNext(r, "Rs_state")
       IN  IF LoadsNothing(Ent(r).state)
           THEN StepRet(t, r2, ent, mu_,
                        IF r2.pc = "Ret" THEN Settle(gk, r, Keys, NoVal, TRUE) ELSE gk)
           ELSE StepE(t, [r EXCEPT !.pc = "Rs_ptr"], ent)

\* raw->emplace(key, value): a key raw already holds keeps its value
Emplace(raw, k, v) == [raw EXCEPT ![k] = IF @ = NoVal THEN v ELSE @]

\* Entry::Load, lines 51-52, and Reset, lines 388-390: ptr_ is read,
\* dereferenced and emplaced in raw
ResetPtr(t) ==
  /\ At(t, "Rs_ptr")
  /\ LET r == th[t]
         p == Ent(r).ptr
         r2 == LoopNext([r EXCEPT !.raw = Emplace(r.raw, r.ik, p)], "Rs_state")
     IN  IF p = NoVal
         THEN StepE(t, Crash(r), ent)
         ELSE StepRet(t, r2, ent, mu_,
                      IF r2.pc = "Ret" THEN Settle(gk, r, Keys, NoVal, TRUE) ELSE gk)

\* ------------------------------------------------------------------- threads
\* the thread leaves the call it returned from
Leave(t) ==
  /\ At(t, "Ret")
  /\ StepE(t, Idle, ent)

Next ==
  \E t \in Threads :
    \/ \E k \in Keys : LoadBegin(t, k)
    \/ LoadLock(t)
    \/ LoadState(t)
    \/ LoadPtr(t)
    \/ \E k \in Keys, v \in Values : StoreBegin(t, k, v)
    \/ TryStoreLoad(t)
    \/ TryStoreCas(t)
    \/ TryStorePtr(t)
    \/ StoreLock(t)
    \/ TryExpungeLoad(t)
    \/ TryExpungeCas(t)
    \/ StoreAmend(t)
    \/ UnexpungeCas(t)
    \/ UnexpungePtr(t)
    \/ StoreLockedLoad(t)
    \/ StoreLockedCas(t)
    \/ StoreLockedPtr(t)
    \/ \E k \in Keys, v \in Values : LoadOrStoreBegin(t, k, v)
    \/ TryLoadOrStoreLoad(t)
    \/ TryLoadOrStoreCas(t)
    \/ TryLoadOrStorePtrW(t)
    \/ TryLoadOrStorePtrR(t)
    \/ LoadOrStoreMiss(t)
    \/ LoadOrStoreLock(t)
    \/ LoadOrStoreAmend(t)
    \/ \E k \in Keys : DeleteBegin(t, k)
    \/ DeleteLock(t)
    \/ EntryDeleteLoad(t)
    \/ EntryDeleteCas(t)
    \/ EntryDeletePtr(t)
    \/ \E given \in BOOLEAN : RangeBegin(t, given)
    \/ RangeLock(t)
    \/ RangePromote(t)
    \/ RangeState(t)
    \/ RangePtr(t)
    \/ \E go_on \in BOOLEAN : RangeCall(t, go_on)
    \/ \E raw0 \in RawInputs : ResetBegin(t, TRUE, raw0)
    \/ ResetBegin(t, FALSE, EmptyRaw)
    \/ ResetState(t)
    \/ ResetPtr(t)
    \/ Leave(t)

Spec == Init /\ [][Next]_vars


\* ================================================================ defer.hpp
\* DeferGuard(callOnExit, args...): routine_ holds the bound call
DeferGuardCtor == TRUE
\* DeferGuard::Cancel: routine_ = nullptr
Cancel == FALSE
\* a destructor that forgets the routine
DtorRunsNever(routine) == FALSE
\* ~DeferGuard: if (routine_) routine_()
DtorRuns(routine) == routine

\* ============================================================ sync/once.hpp
\* the test of done_ under mu_ left out
AlwaysToDo(d) == TRUE
\* Once::CallSlow, line 39: if (!done_)
StillToDo(d) == ~d

OnceAt(t, pc) == oc[t].pc = pc

OnceStep(t, r, d, m, n) ==
  /\ oc' = [oc EXCEPT ![t] = r]
  /\ done_' = d
  /\ onceMu_' = m
  /\ ran' = n
  /\ UNCHANGED <<mapVars, singleVars, listVars, hashVars, cachedVars>>

\* Once::Call, line 29: done_.load(); CallSlow is entered if it is false
OnceCall(t) ==
  /\ OnceAt(t, "Idle")
  /\ IF done_
     THEN OnceStep(t, [oc[t] EXCEPT !.pc = "Ret"], done_, onceMu_, ran)
     ELSE OnceStep(t, [oc[t] EXCEPT !.pc = "Slow", !.slow = TRUE], done_, onceMu_, ran)

\* Once::CallSlow, lines 38-41: mu_ is taken, done_ is tested again; the task
\* starts, or the lock_guard is destroyed at once
OnceLock(t) ==
  /\ OnceAt(t, "Slow")
  /\ onceMu_ = NoThread
  /\ IF StillToDo(done_)
     THEN OnceStep(t, [oc[t] EXCEPT !.pc = "Task", !.did = TRUE], done_, t,
                   [ran EXCEPT !.started = @ + 1])
     ELSE OnceStep(t, [oc[t] EXCEPT !.pc = "Ret"], done_, onceMu_, ran)

\* line 41: _func() returns or throws
OnceTask(t, throws) ==
  /\ OnceAt(t, "Task")
  /\ OnceStep(t, [oc[t] EXCEPT !.pc = "Defer", !.threw = throws], done_, onceMu_,
              [ran EXCEPT !.over = @ + 1])

\* line 40, at the end of the block: the DeferGuard is destroyed and stores
\* done_ = true
OnceDefer(t) ==
  /\ OnceAt(t, "Defer")
  /\ OnceStep(t, [oc[t] EXCEPT !.pc = "Unlock"],
              IF DtorRuns(DeferGuardCtor) THEN TRUE ELSE done_, onceMu_, ran)

\* line 43: the lock_guard is destroyed after the DeferGuard; Call returns
OnceUnlock(t) ==
  /\ OnceAt(t, "Unlock")
  /\ OnceStep(t, [oc[t] EXCEPT !.pc = "Ret"], done_, NoThread, ran)

\* the caller goes on to its next call
OnceLeave(t) ==
  /\ OnceAt(t, "Ret")
  /\ OnceStep(t, OnceIdle, done_, onceMu_, ran)

OnceNext ==
  \E t \in Callers :
    \/ OnceCall(t)
    \/ OnceLock(t)
    \/ \E throws \in BOOLEAN : OnceTask(t, throws)
    \/ OnceDefer(t)
    \/ OnceUnlock(t)
    \/ OnceLeave(t)

OnceSpec == UtilInit /\ [][OnceNext]_vars

\* ===================================================== sync/single_call.hpp
\* a compare_exchange that takes the flag whatever it holds
CasAlwaysWins(flag) == TRUE
\* line 33: __doCall.compare_exchange_strong(expected = false, true) succeeds
CasWins(flag) == ~flag

SingleAt(t, pc) == sc[t].pc = pc

SingleStep(t, r, flag) ==
  /\ sc' = [sc EXCEPT ![t] = r]
  /\ doCall' = flag
  /\ UNCHANGED <<mapVars, onceVars, listVars, hashVars, cachedVars>>

\* SingleCall, lines 32-36: the compare_exchange; return false, or the
\* DeferGuard is made and the callable is entered
SingleCallBegin(t) ==
  /\ SingleAt(t, "Idle")
  /\ IF CasWins(doCall)
     THEN SingleStep(t, [sc[t] EXCEPT !.op = "SingleCall", !.pc = "Call",
                                      !.routine_ = DeferGuardCtor], TRUE)
     ELSE SingleStep(t, [sc[t] EXCEPT !.op = "SingleCall", !.pc = "Ret"], doCall)

\* lines 38-39: call() returns or throws
SingleCallCallable(t, throws) ==
  /\ SingleAt(t, "Call")
  /\ sc[t].op = "SingleCall"
  /\ SingleStep(t, [sc[t] EXCEPT !.pc = "Exit", !.calls = @ + 1, !.threw = throws],
                doCall)

\* lines 40-41: the scope is left by return true or by the exception; the
\* DeferGuard is destroyed and its routine sets __doCall = false
SingleCallExit(t) ==
  /\ SingleAt(t, "Exit")
  /\ sc[t].op = "SingleCall"
  /\ LET r == sc[t]
     IN  IF DtorRuns(r.routine_)
         THEN SingleStep(t, [r EXCEPT !.pc = "Ret", !.ret = ~r.threw,
                                      !.routines = @ + 1], FALSE)
         ELSE SingleStep(t, [r EXCEPT !.pc = "Ret", !.ret = ~r.threw], doCall)

\* test/defer_test.cpp, ChangeNumber: a scope with a DeferGuard of its own
ChangeNumberBegin(t) ==
  /\ SingleAt(t, "Idle")
  /\ SingleStep(t, [sc[t] EXCEPT !.op = "ChangeNumber", !.pc = "Scope",
                                 !.routine_ = DeferGuardCtor], doCall)

\* DeferGuard::Cancel inside the scope
ScopeCancel(t) ==
  /\ SingleAt(t, "Scope")
  /\ ~sc[t].cancel
  /\ SingleStep(t, [sc[t] EXCEPT !.routine_ = Cancel, !.cancel = TRUE], doCall)

\* the scope is left, by its end or by an exception: ~DeferGuard
ScopeExit(t, throws) ==
  /\ SingleAt(t, "Scope")
  /\ LET r == sc[t]
     IN  SingleStep(t, [r EXCEPT !.pc = "Ret", !.threw = throws,
                                 !.routines = IF DtorRuns(r.routine_) THEN @ + 1 ELSE @],
                    doCall)

\* the caller goes on to its next call
SingleLeave(t) ==
  /\ SingleAt(t, "Ret")
  /\ SingleStep(t, SingleIdle, doCall)

SingleNext ==
  \E t \in Callers :
    \/ SingleCallBegin(t)
    \/ \E throws \in BOOLEAN : SingleCallCallable(t, throws)
    \/ SingleCallExit(t)
    \/ ChangeNumberBegin(t)
    \/ ScopeCancel(t)
    \/ \E throws \in BOOLEAN : ScopeExit(t, throws)
    \/ SingleLeave(t)

SingleSpec == UtilInit /\ [][SingleNext]_vars

\* ============================================================ sync/list.hpp
\* The values given to Add are numbered in the order in which they are put
\* into buffer_: lo.added is the last one.

\* a copy where the code moves: buffer_ keeps its elements
NotMoved(b) == b
\* lines 50, 78: buffer_ after auto buffer = std::move(buffer_)
Moved(b) == <<>>

\* list_.erase(it)
Erase(s, i) == SubSeq(s, 1, i - 1) \o SubSeq(s, i + 1, Len(s))

\* What a call returned is local to its caller: no other thread moves between
\* the return and the caller's next step.
ListAt(t, pc) == lc[t].pc = pc /\ \A u \in Callers \ {t} : lc[u].pc # "Ret"

\* listMut_, a shared_timed_mutex: lock, lock_shared and the unlocks
CanLock == listMut_.excl = NoThread /\ listMut_.shared = {}
CanLockShared == listMut_.excl = NoThread
Locked(t) == [listMut_ EXCEPT !.excl = t]
LockedShared(t) == [listMut_ EXCEPT !.shared = @ \cup {t}]
Unlocked(t) == [excl |-> IF listMut_.excl = t THEN NoThread ELSE listMut_.excl,
                shared |-> listMut_.shared \ {t}]

ListStep(t, r, lm, l, bm, b, o) ==
  /\ lc' = [lc EXCEPT ![t] = r]
  /\ listMut_' = lm
  /\ list_' = l
  /\ bufferMut_' = bm
  /\ buffer_' = b
  /\ lo' = o
  /\ UNCHANGED <<mapVars, onceVars, singleVars, hashVars, cachedVars>>

\* List::Add, line 41: bufferMut_ is taken
AddLock(t) ==
  /\ ListAt(t, "Idle")
  /\ lo.added < MaxAdds
  /\ bufferMut_ = NoThread
  /\ ListStep(t, [lc[t] EXCEPT !.op = "Add", !.pc = "Add", !.val = lo.added + 1],
              listMut_, list_, t, buffer_, lo)

\* lines 42-43: buffer_.emplace_back(value), bufferMut_ is released, Add returns
AddEmplace(t) ==
  /\ ListAt(t, "Add")
  /\ ListStep(t, ListIdle, listMut_, list_, NoThread, Append(buffer_, lc[t].val),
              [lo EXCEPT !.added = lc[t].val])

\* List::ForEach is called
ForEachBegin(t) ==
  /\ ListAt(t, "Idle")
  /\ ListStep(t, [lc[t] EXCEPT !.op = "ForEach", !.pc = "FE_lock", !.pre = lo.added],
              listMut_, list_, bufferMut_, buffer_, lo)

\* line 47: listMut_ is taken
ForEachLock(t) ==
  /\ ListAt(t, "FE_lock")
  /\ CanLock
  /\ ListStep(t, [lc[t] EXCEPT !.pc = "FE_buf"], Locked(t), list_, bufferMut_, buffer_, lo)

\* line 49: bufferMut_.lock()
ForEachBufLock(t) ==
  /\ ListAt(t, "FE_buf")
  /\ bufferMut_ = NoThread
  /\ ListStep(t, [lc[t] EXCEPT !.pc = "FE_move"], listMut_, list_, t, buffer_, lo)

\* lines 50-51: buffer_ is moved out, bufferMut_.unlock()
ForEachMove(t) ==
  /\ ListAt(t, "FE_move")
  /\ ListStep(t, [lc[t] EXCEPT !.pc = "FE_merge", !.buffer = buffer_],
              listMut_, list_, NoThread, Moved(buffer_), lo)

\* lines 53-56: the moved values are appended to list_, listMut_ is released
ForEachMerge(t) ==
  /\ ListAt(t, "FE_merge")
  /\ ListStep(t, [lc[t] EXCEPT !.pc = "FE_shared", !.buffer = <<>>],
              Unlocked(t), list_ \o lc[t].buffer, bufferMut_, buffer_, lo)

\* lines 58-59: listMut_ is taken shared; func is entered with the first
\* element, or list_ is empty and ForEach returns
ForEachShared(t) ==
  /\ ListAt(t, "FE_shared")
  /\ CanLockShared
  /\ IF list_ = <<>>
     THEN ListStep(t, [lc[t] EXCEPT !.pc = "Ret"], listMut_, list_, bufferMut_, buffer_, lo)
     ELSE ListStep(t, [lc[t] EXCEPT !.pc = "FE_func", !.it = 1],
                   LockedShared(t), list_, bufferMut_, buffer_, lo)

\* lines 59-62: func(v) returns; the next element, or the end of list_
ForEachFunc(t) ==
  /\ ListAt(t, "FE_func")
  /\ LET r == [lc[t] EXCEPT !.given = Append(@, list_[lc[t].it])]
     IN  IF r.it < Len(list_)
         THEN ListStep(t, [r EXCEPT !.it = @ + 1], listMut_, list_, bufferMut_, buffer_, lo)
         ELSE ListStep(t, [r EXCEPT !.pc = "Ret"], Unlocked(t), list_, bufferMut_,
                       buffer_, lo)

\* List::ForEachRemove is called
ForEachRemoveBegin(t) ==
  /\ ListAt(t, "Idle")
  /\ ListStep(t, [lc[t] EXCEPT !.op = "ForEachRemove", !.pc = "FR_lock"],
              listMut_, list_, bufferMut_, buffer_, lo)

\* lines 66-68: listMut_ is taken; func is entered with the first element
ForEachRemoveLock(t) ==
  /\ ListAt(t, "FR_lock")
  /\ CanLock
  /\ ListStep(t, [lc[t] EXCEPT !.pc = IF list_ = <<>> THEN "FR_buf" ELSE "FR_func",
                               !.it = 1],
              Locked(t), list_, bufferMut_, buffer_, lo)

\* lines 69-75: func(*it) returns; the element is kept or erased
ForEachRemoveFunc(t, keep) ==
  /\ ListAt(t, "FR_func")
  /\ LET r == lc[t]
         l == IF keep THEN list_ ELSE Erase(list_, r.it)
         i == IF keep THEN r.it + 1 ELSE r.it
         r2 == [r EXCEPT !.it = i, !.count = IF keep THEN @ ELSE @ + 1,
                         !.pc = IF i > Len(l) THEN "FR_buf" ELSE "FR_func"]
     IN  ListStep(t, r2, listMut_, l, bufferMut_, buffer_,
                  IF keep THEN lo ELSE [lo EXCEPT !.dropped = @ \cup {list_[r.it]}])

\* line 77: bufferMut_.lock()
ForEachRemoveBufLock(t) ==
  /\ ListAt(t, "FR_buf")
  /\ bufferMut_ = NoThread
  /\ ListStep(t, [lc[t] EXCEPT !.pc = "FR_move"], listMut_, list_, t, buffer_, lo)

\* lines 78-81: buffer_ is moved out, bufferMut_.unlock(); func is entered
\* with the first moved value, or there is none and ForEachRemove returns
ForEachRemoveMove(t) ==
  /\ ListAt(t, "FR_move")
  /\ IF buffer_ = <<>>
     THEN ListStep(t, [lc[t] EXCEPT !.pc = "Ret"], Unlocked(t), list_, NoThread,
                   Moved(buffer_), lo)
     ELSE ListStep(t, [lc[t] EXCEPT !.pc = "FR_func2", !.buffer = buffer_, !.it = 1],
                   listMut_, list_, NoThread, Moved(buffer_), lo)

\* lines 82-87: func(v) returns; the value is appended to list_ or counted;
\* after the last one listMut_ is released and count is returned
ForEachRemoveFunc2(t, keep) ==
  /\ ListAt(t, "FR_func2")
  /\ LET r == lc[t]
         v == r.buffer[r.it]
         last == r.it = Len(r.buffer)
         r2 == [r EXCEPT !.it = @ + 1, !.count = IF keep THEN @ ELSE @ + 1,
                         !.pc = IF last THEN "Ret" ELSE "FR_func2",
                         !.buffer = IF last THEN <<>> ELSE @]
     IN  ListStep(t, r2, IF last THEN Unlocked(t) ELSE listMut_,
                  IF keep THEN Append(list_, v) ELSE list_, bufferMut_, buffer_,
                  IF keep THEN lo ELSE [lo EXCEPT !.dropped = @ \cup {v}])

\* the caller goes on to its next call
ListLeave(t) ==
  /\ ListAt(t, "Ret")
  /\ ListStep(t, ListIdle, listMut_, list_, bufferMut_, buffer_, lo)

ListNext ==
  \E t \in Callers :
    \/ AddLock(t)
    \/ AddEmplace(t)
    \/ ForEachBegin(t)
    \/ ForEachLock(t)
    \/ ForEachBufLock(t)
    \/ ForEachMove(t)
    \/ ForEachMerge(t)
    \/ ForEachShared(t)
    \/ ForEachFunc(t)
    \/ ForEachRemoveBegin(t)
    \/ ForEachRemoveLock(t)
    \/ \E keep \in BOOLEAN : ForEachRemoveFunc(t, keep)
    \/ ForEachRemoveBufLock(t)
    \/ ForEachRemoveMove(t)
    \/ \E keep \in BOOLEAN : ForEachRemoveFunc2(t, keep)
    \/ ListLeave(t)

ListSpec == UtilInit /\ [][ListNext]_vars

\* ------------------------------------------------------------ sync::HashTable
\* What a call returned is local to its caller; a crash ends the process.
HashAt(t, pc) ==
  /\ hc[t].pc = pc
  /\ \A u \in Threads : hc[u].pc # "Crash"
  /\ \A u \in Threads \ {t} : hc[u].pc # "Ret"

HashStep(t, r, m, mu) ==
  /\ hc' = [hc EXCEPT ![t] = r]
  /\ map_' = m
  /\ hashMu_' = mu
  /\ UNCHANGED <<mapVars, onceVars, singleVars, listVars, cachedVars>>

\* the keys of the table m
HKeysOf(m) == {k \in HKeys : m[k] # NoVal}

\* HashTable::Put, lines 46-53: under mu_, emplace or overwrite
HashPut(t, k, v) ==
  /\ HashAt(t, "Idle")
  /\ hashMu_ = NoThread
  /\ HashStep(t, [HashIdle EXCEPT !.op = "Put", !.pc = "Ret",
                    !.status = IF map_[k] = NoVal THEN "PUT_NEW" ELSE "PUT_OVERWRITE"],
              [map_ EXCEPT ![k] = v], hashMu_)

\* HashTable::Remove(key, value), lines 87-96: under mu_, find and erase
HashRemove(t, k) ==
  /\ HashAt(t, "Idle")
  /\ hashMu_ = NoThread
  /\ HashStep(t, [HashIdle EXCEPT !.op = "Remove", !.pc = "Ret",
                    !.status = IF map_[k] = NoVal THEN "false" ELSE "true"],
              [map_ EXCEPT ![k] = NoVal], hashMu_)

\* the orders in which a table with the keys K may be walked
Orders(K) ==
  {s \in [1..Cardinality(K) -> K] : \A i, j \in 1..Cardinality(K) : i # j => s[i] # s[j]}

\* the orders of all tables
AllOrders == UNION {Orders(K) : K \in SUBSET HKeys}

\* map_.end() for the walk over order
End(order) == Len(order) + 1

\* RemoveIf(predicator), lines 125-131: an empty predicator returns 0; else mu_
\* is taken and it = map_.begin().  pred: the keys the predicator is true on.
RemoveIfBegin(t, given, pred, order) ==
  /\ HashAt(t, "Idle")
  /\ IF ~given
     THEN HashStep(t, [HashIdle EXCEPT !.op = "RemoveIf", !.pc = "Ret", !.before = map_,
                                       !.status = "empty"],
                   map_, hashMu_)
     ELSE /\ hashMu_ = NoThread
          /\ order \in Orders(HKeysOf(map_))
          /\ HashStep(t, [HashIdle EXCEPT !.op = "RemoveIf", !.pc = "RI_test", !.pred = pred,
                            !.status = "given",
                            !.order = order, !.it = 1, !.before = map_],
                      map_, t)

\* the predicator is called on a key once more
Called(e) == IF e = "no" THEN "once" ELSE "again"

\* RemoveIf, lines 131-137: the test it != map_.end(); return count, or the
\* predicator is called on *it.  If it answers true the iterator is advanced
\* (line 133) and the entry stays; if false the entry is counted and erased
\* (lines 135-136), which leaves `it` invalid (0).
RemoveIfTest(t) ==
  /\ HashAt(t, "RI_test")
  /\ LET h == hc[t]
         k == h.order[h.it]
     IN  IF h.it = End(h.order)
         THEN HashStep(t, [h EXCEPT !.pc = "Ret"], map_, NoThread)
         ELSE LET h2 == [h EXCEPT !.evals[k] = Called(@), !.pc = "RI_incr"]
              IN  IF k \in h.pred
                  THEN HashStep(t, [h2 EXCEPT !.it = @ + 1], map_, hashMu_)
                  ELSE HashStep(t, [h2 EXCEPT !.count = @ + 1, !.it = 0,
                                              !.order = Erase(h.order, h.it)],
                                [map_ EXCEPT ![k] = NoVal], hashMu_)

\* RemoveIf, line 131: ++it of the for statement, on a valid iterator
RemoveIfIncr(t) ==
  /\ HashAt(t, "RI_incr")
  /\ hc[t].it \in 1..Len(hc[t].order)
  /\ HashStep(t, [hc[t] EXCEPT !.pc = "RI_test", !.it = @ + 1], map_, hashMu_)

\* RemoveIf, line 131: ++it on map_.end() or on the iterator erase made
\* invalid is undefined: `it` comes to be any iterator of the table ...
RemoveIfIncrWild(t, it) ==
  /\ HashAt(t, "RI_incr")
  /\ hc[t].it \notin 1..Len(hc[t].order)
  /\ it \in 1..End(hc[t].order)
  /\ HashStep(t, [hc[t] EXCEPT !.pc = "RI_test", !.it = it,
                               !.past = @ \/ hc[t].it = End(hc[t].order)],
              map_, hashMu_)

\* ... or the process dies
RemoveIfIncrCrash(t) ==
  /\ HashAt(t, "RI_incr")
  /\ hc[t].it \notin 1..Len(hc[t].order)
  /\ HashStep(t, [hc[t] EXCEPT !.pc = "Crash",
                               !.past = @ \/ hc[t].it = End(hc[t].order)],
              map_, hashMu_)

\* the caller leaves the call it returned from
HashLeave(t) ==
  /\ HashAt(t, "Ret")
  /\ HashStep(t, HashIdle, map_, hashMu_)

HashNext ==
  \E t \in Threads :
    \/ \E k \in HKeys, v \in Values : HashPut(t, k, v)
    \/ \E k \in HKeys : HashRemove(t, k)
    \/ \E pred \in SUBSET HKeys, order \in AllOrders : RemoveIfBegin(t, TRUE, pred, order)
    \/ RemoveIfBegin(t, FALSE, {}, <<>>)
    \/ RemoveIfTest(t)
    \/ RemoveIfIncr(t)
    \/ \E it \in 1..(MaxHKeys + 1) : RemoveIfIncrWild(t, it)
    \/ RemoveIfIncrCrash(t)
    \/ HashLeave(t)

HashSpec == UtilInit /\ [][HashNext]_vars

\* ------------------------------------------------------------ sync::CachedMap
\* What a call returned is local to its caller, as for the Map.
CachedAt(t, pc) == cc[t].pc = pc /\ \A u \in Threads \ {t} : cc[u].pc # "Ret"

\* the cached::Entry objects of key k some reference reaches
CLive(rm, C, k) ==
  ({rm[k]} \cup {C[t].entry : t \in {u \in Threads : C[u].key = k}}) \ {NoEntry}

\* The next state.  shared_ptr frees the Entry no reference reaches any more.
CachedStep(C, w, rm, ce) ==
  /\ cc' = C
  /\ write_' = w
  /\ readMap_' = rm
  /\ centry' = [k \in CKeys |-> [i \in CSlots |->
                  IF i \in CLive(rm, C, k) THEN ce[k][i] ELSE NoVal]]
  /\ UNCHANGED <<mapVars, onceVars, singleVars, listVars, hashVars>>

\* a step of caller t inside its call
CachedOwn(t, r, w, rm, ce) == CachedStep([cc EXCEPT ![t] = r], w, rm, ce)

\* caller t makes a call: the calls in flight no longer run alone
CachedBegin(t, r, w) ==
  CachedStep([u \in Threads |->
                IF u = t
                THEN [r EXCEPT !.alone = \A x \in Threads \ {t} : cc[x].pc \in {"Idle", "Ret"}]
                ELSE [cc[u] EXCEPT !.alone = FALSE]],
             w, readMap_, centry)

\* the call returns: its locals are destroyed, its results stay to be read
CachedReturn(r, ret, out) ==
  [r EXCEPT !.pc = "Ret", !.ret = ret, !.out = out, !.entry = NoEntry]

\* std::make_shared<cached::Entry>: the lowest free slot of the key
CFree(k) == Lowest(CSlots \ CLive(readMap_, cc, k))

\* CachedMap::Put, lines 176-177: write_.Put(key, val)
CachedPutBegin(t, k, v) ==
  /\ CachedAt(t, "Idle")
  /\ CachedBegin(t, [CachedIdle EXCEPT !.op = "Put", !.key = k, !.val = v,
                       !.pc = "TryStore",
                       !.status = IF write_[k] = NoVal THEN "PUT_NEW" ELSE "PUT_OVERWRITE"],
                 [write_ EXCEPT ![k] = v])

\* CachedMap::TryPut, lines 185-189: write_.TryPut(key, val); the cache is
\* touched only if the key was new
CachedTryPutBegin(t, k, v) ==
  /\ CachedAt(t, "Idle")
  /\ LET r == [CachedIdle EXCEPT !.op = "TryPut", !.key = k, !.val = v]
     IN  IF write_[k] = NoVal
         THEN CachedBegin(t, [r EXCEPT !.pc = "TryStore", !.status = "PUT_NEW"],
                          [write_ EXCEPT ![k] = v])
         ELSE CachedBegin(t, CachedReturn([r EXCEPT !.status = "PUT_SKIPPED"], FALSE, NoVal),
                          write_)

\* cached::Read::TryStore, lines 80-83, with Read::Get, lines 71-75: the lookup
\* under the shared lock; nothing is stored for a key that is not cached
ReadTryStore(t) ==
  /\ CachedAt(t, "TryStore")
  /\ LET r == cc[t]
         e == readMap_[r.key]
     IN  IF e = NoEntry
         THEN CachedOwn(t, CachedReturn(r, TRUE, NoVal), write_, readMap_, centry)
         ELSE CachedOwn(t, [r EXCEPT !.pc = "Store", !.entry = e], write_, readMap_, centry)

\* what the call answers after the cache is written: Get (lines 205-206) the
\* value it read from write_, Put, TryPut and Remove their status
AfterStore(r) ==
  IF r.op = "Get" THEN CachedReturn(r, r.val # NoVal, r.val)
  ELSE CachedReturn(r, TRUE, r.out)

\* cached::Entry::Store, lines 58-59 (from TryStore, line 84, and Update, line
\* 102): val_ = v under the Entry's lock
EntryStore(t) ==
  /\ CachedAt(t, "Store")
  /\ LET r == cc[t]
     IN  CachedOwn(t, AfterStore(r), write_, readMap_,
                   [centry EXCEPT ![r.key][r.entry] = r.val])

\* CachedMap::Get, lines 194-200, with Read::Get, lines 71-75: the lookup in
\* the cache
CachedGetBegin(t, k) ==
  /\ CachedAt(t, "Idle")
  /\ LET r == [CachedIdle EXCEPT !.op = "Get", !.key = k]
         e == readMap_[k]
     IN  IF e # NoEntry
         THEN CachedBegin(t, [r EXCEPT !.pc = "Load", !.entry = e], write_)
         ELSE CachedBegin(t, [r EXCEPT !.pc = "WriteGet"], write_)

\* cached::Entry::Load, lines 64-65, and Get, lines 199, 205-206
EntryLoad(t) ==
  /\ CachedAt(t, "Load")
  /\ LET r == cc[t]
         v == centry[r.key][r.entry]
     IN  CachedOwn(t, CachedReturn(r, v # NoVal, v), write_, readMap_, centry)

\* Get, line 201: val = write_.Get(key), null if write_ has not got the key
WriteGet(t) ==
  /\ CachedAt(t, "WriteGet")
  /\ CachedOwn(t, [cc[t] EXCEPT !.pc = "Update", !.val = write_[cc[t].key]],
               write_, readMap_, centry)

\* cached::Read::Update, lines 89-100: a new Entry with val is emplaced under
\* the lock; if the key is cached already its Entry is taken instead
ReadUpdate(t) ==
  /\ CachedAt(t, "Update")
  /\ LET r == cc[t]
         e == readMap_[r.key]
         n == CFree(r.key)
     IN  IF e = NoEntry
         THEN CachedOwn(t, AfterStore(r), write_, [readMap_ EXCEPT ![r.key] = n],
                        [centry EXCEPT ![r.key][n] = r.val])
         ELSE CachedOwn(t, [r EXCEPT !.pc = "Store", !.entry = e], write_, readMap_, centry)

\* CachedMap::Remove, lines 211-215: write_.Remove(key, val); false if the key
\* is missing, else the cache is to be updated with nullptr
CachedRemoveBegin(t, k) ==
  /\ CachedAt(t, "Idle")
  /\ LET r == [CachedIdle EXCEPT !.op = "Remove", !.key = k]
     IN  IF write_[k] = NoVal
         THEN CachedBegin(t, CachedReturn(r, FALSE, NoVal), write_)
         ELSE CachedBegin(t, [r EXCEPT !.pc = "Update", !.out = write_[k]],
                          [write_ EXCEPT ![k] = NoVal])

\* CachedMap::Clear, lines 221-222: write_.Clear(w) swaps the table out
CachedClearBegin(t) ==
  /\ CachedAt(t, "Idle")
  /\ CachedBegin(t, [CachedIdle EXCEPT !.op = "Clear", !.pc = "ReadClear"],
                 [k \in CKeys |-> NoVal])

\* Clear, line 223: read_->Clear() (lines 107-109) moves the cache's map away;
\* lines 225-227 fill the caller's map
ReadClear(t) ==
  /\ CachedAt(t, "ReadClear")
  /\ CachedOwn(t, CachedReturn(cc[t], TRUE, NoVal), write_, [k \in CKeys |-> NoEntry], centry)

\* the caller leaves the call it returned from
CachedLeave(t) ==
  /\ CachedAt(t, "Ret")
  /\ CachedOwn(t, CachedIdle, write_, readMap_, centry)

CachedNext ==
  \E t \in Threads :
    \/ \E k \in CKeys, v \in Values : CachedPutBegin(t, k, v)
    \/ \E k \in CKeys, v \in Values : CachedTryPutBegin(t, k, v)
    \/ ReadTryStore(t)
    \/ EntryStore(t)
    \/ \E k \in CKeys : CachedGetBegin(t, k)
    \/ EntryLoad(t)
    \/ WriteGet(t)
    \/ ReadUpdate(t)
    \/ \E k \in CKeys : CachedRemoveBegin(t, k)
    \/ CachedClearBegin(t)
    \/ ReadClear(t)
    \/ CachedLeave(t)

CachedSpec == UtilInit /\ [][CachedNext]_vars
\* ------------------------------------------------------------------- claims
\* Entry::Load, lines 46-53, of an Entry no call is working on
EntryValue(e) == IF LoadsNothing(e.state) THEN NoVal ELSE e.ptr

\* Map::Load, lines 254-282, at once: the value a Load of k would find (NoVal:
\* not found), in read_ and, if read_ is amended, in dirty_
View(k) ==
  LET e == tables[read_m][k]
      d == IF read_amended /\ dirty_ # NoTable THEN tables[dirty_][k] ELSE NoEntry
      x == IF e # NoEntry THEN e ELSE d
  IN  IF x = NoEntry THEN NoVal ELSE EntryValue(ent[k][x])

\* thread t's call of op is over: it returned, or the process died in it
Over(t, op) == th[t].op = op /\ th[t].pc \in {"Ret", "Crash"}
\* what the call of t expected of its key, if no other thread's call on that
\* key ran together with it
Exp(t) == th[t].exp[th[t].key]

\* C1 (visibility): a Load(k) that follows a Store(k, v), with no call of
\* another thread that may change k running from the start of the Store to
\* the return of the Load, returns found with the value v.
C1_Visibility ==
  \A t \in Threads :
    Over(t, "Load") /\ Exp(t).known /\ Exp(t).by = "Store"
      => th[t].pc = "Ret" /\ th[t].ret /\ th[t].out = Exp(t).v

\* a Load finds, through the miss that promotes dirty_, the value a Store left
\* there
C1_Witness ==
  \E t \in Threads :
    /\ Over(t, "Load") /\ Exp(t).known /\ Exp(t).by = "Store"
    /\ th[t].ret /\ th[t].path = "promoted"

\* C2 (delete, then load): once a Delete(k) returned true, a Load(k) returns
\* not found as long as no Store or LoadOrStore of k has begun, whatever
\* happened to other keys, to read_ and to dirty_ in between.
C2_DeleteThenLoad ==
  \A t \in Threads :
    Over(t, "Load") /\ Exp(t).known /\ Exp(t).by = "Delete"
      => th[t].pc = "Ret" /\ ~th[t].ret

\* a Load of a deleted key whose Entry, still in read_, was expunged when
\* dirty_ was rebuilt
C2_Witness ==
  \E t \in Threads :
    /\ Over(t, "Load") /\ Exp(t).known /\ Exp(t).by = "Delete" /\ ~th[t].ret
    /\ tables[read_m][th[t].key] # NoEntry
    /\ ent[th[t].key][tables[read_m][th[t].key]].state = "kExpunged"

\* C3 (LoadOrStore): on a key known absent LoadOrStore(k, v) returns (v, not
\* loaded) and a Load of k then finds v; on a key known to hold v0 it returns
\* (v0, loaded) and a Load of k still finds v0.
C3_LoadOrStore ==
  \A t \in Threads :
    Over(t, "LoadOrStore") /\ Exp(t).known
      => /\ th[t].pc = "Ret"
         /\ th[t].ret = (Exp(t).v # NoVal)
         /\ th[t].out = (IF Exp(t).v # NoVal THEN Exp(t).v ELSE th[t].val)
         /\ View(th[t].key) = th[t].out

\* a LoadOrStore, on the slow path, stores into an Entry of read_ that was
\* expunged
C3_Witness ==
  \E t \in Threads :
    /\ Over(t, "LoadOrStore") /\ Exp(t).known /\ Exp(t).v = NoVal
    /\ th[t].path = "unexpunged" /\ ~th[t].ret

\* C4 (idempotent delete): Delete(k) of a key known absent returns false, and
\* every key j whose value was known when the call began and that no other
\* thread's call may have changed since is found as before.
C4_IdempotentDelete ==
  \A t \in Threads :
    Over(t, "Delete") /\ Exp(t).known /\ Exp(t).v = NoVal
      => /\ th[t].pc = "Ret"
         /\ ~th[t].ret
         /\ \A j \in Keys : th[t].exp[j].known => View(j) = th[t].exp[j].v

\* a Delete of an absent key counts the miss that promotes dirty_, which
\* holds another key
C4_Witness ==
  \E t \in Threads :
    /\ Over(t, "Delete") /\ Exp(t).known /\ Exp(t).v = NoVal
    /\ th[t].path = "promoted"
    /\ \E j \in Keys : th[t].exp[j].known /\ th[t].exp[j].v # NoVal

\* C5 (Range completeness): the enumerator is called with a key only if the
\* key is not known absent, and with its known value; a Range that the
\* enumerator did not stop has called it for every key known present when
\* Range began (known: no call that may change the key ran since); and Range
\* does not die on the Entry of such a key.
C5_RangeComplete ==
  \A t \in Threads :
    th[t].op = "Range"
      => /\ th[t].pc = "Crash" => ~th[t].exp[th[t].ik].known
         /\ th[t].pc = "Rg_call" /\ th[t].exp[th[t].ik].known
              => th[t].exp[th[t].ik].v = th[t].out
         /\ \A k \in th[t].seen : th[t].exp[k].known => th[t].exp[k].v # NoVal
         /\ th[t].pc = "Ret" /\ th[t].ret /\ th[t].path # "empty"
              => \A k \in Keys :
                   th[t].exp[k].known /\ th[t].exp[k].v # NoVal => k \in th[t].seen

\* two threads stored a key each, and the Range begun after both returned went
\* through both keys
C5_Witness ==
  \E t \in Threads :
    /\ th[t].op = "Range" /\ th[t].pc = "Ret" /\ th[t].ret
    /\ th[t].seen = Keys
    /\ \A k \in Keys : th[t].exp[k].known /\ th[t].exp[k].by = "Store"
    /\ menu[2] # {}

\* C6 (Reset drains exactly once): Reset(raw) leaves in raw exactly the keys
\* known present, each with its value; when no other thread's call that may
\* change a key ran together with it, read_ is then empty and not amended,
\* dirty_ is null and misses_ is 0.
C6_ResetDrains ==
  \A t \in Threads :
    Over(t, "Reset")
      => /\ th[t].pc = "Crash" => ~th[t].exp[th[t].ik].known
         /\ th[t].hasRaw => \A k \in Keys : th[t].exp[k].known => th[t].raw[k] = th[t].exp[k].v
         /\ th[t].clean = Keys
              => /\ KeysOf(tables[read_m]) = {} /\ ~read_amended
                 /\ dirty_ = NoTable /\ misses_ = 0

\* C7 (resurrection): when Store(k, v) found k's Entry expunged in read_, it
\* returns with that Entry under k in dirty_ too, holding v.
C7_Resurrection ==
  \A t \in Threads :
    Over(t, "Store") /\ th[t].path = "unexpunged" /\ th[t].key \in th[t].clean
      => /\ th[t].pc = "Ret"
         /\ dirty_ # NoTable
         /\ tables[dirty_][th[t].key] # NoEntry
         /\ tables[dirty_][th[t].key] = tables[read_m][th[t].key]
         /\ EntryValue(ent[th[t].key][tables[dirty_][th[t].key]]) = th[t].val

\* a Store returned from resurrecting an Entry deleted by a Delete
C7_Witness ==
  \E t \in Threads :
    /\ Over(t, "Store") /\ th[t].path = "unexpunged" /\ th[t].key \in th[t].clean
    /\ Exp(t).by = "Delete"
    /\ dirty_ # NoTable

\* a miss counted by MissLocked: misses_ is one more and nothing else changes
MissCounted ==
  /\ misses_' = misses_ + 1
  /\ dirty_' = dirty_ /\ read_m' = read_m /\ read_amended' = read_amended

\* dirty_ is no more: MissLocked or Range made it read_, or Reset dropped it
DirtyGone ==
  /\ misses_' = 0 /\ dirty_' = NoTable /\ ~read_amended'
  /\ read_m' = dirty_ \/ \E t \in Threads : th'[t].op = "Reset"

\* C8 (promotion): misses_ changes by one miss at a time or goes to 0 with
\* dirty_ becoming read_, not amended; and outside the critical sections
\* misses_ is below the size of dirty_, and 0 without a dirty_.
C8_Promotion ==
  /\ [](mu_ = NoThread =>
          IF dirty_ = NoTable THEN misses_ = 0
          ELSE misses_ < TableSize(tables[dirty_]))
  /\ [][misses_' # misses_ => MissCounted \/ DirtyGone]_vars

\* a Load counted a miss that was not yet enough to promote dirty_
C8_Witness ==
  \E t \in Threads :
    /\ Over(t, "Load") /\ th[t].path = "miss"
    /\ misses_ = 1 /\ dirty_ # NoTable

\* C9 (tag and value agree): no assertion on a null value fails, no null value
\* is dereferenced, and whenever no call is working on an Entry its state_
\* is kValue exactly if its ptr_ is set.
C9_TagValueConsistent ==
  /\ ~Crashed
  /\ \A k \in Keys, i \in Slots :
       (\A t \in Threads : ~(InFlight(th[t]) /\ th[t].entry = i /\ EKey(th[t]) = k))
         => (ent[k][i].state = "kValue") = (ent[k][i].ptr # NoVal)

\* C10 (Range calls the enumerator unlocked): while the enumerator runs, the
\* thread that called Range does not hold mu_.
C10_RangeUnlocked ==
  \A t \in Threads : th[t].pc = "Rg_call" => mu_ # t

\* the enumerator runs after Range took mu_ and made dirty_ the new read_
C10_Witness ==
  \E t \in Threads : th[t].pc = "Rg_call" /\ th[t].path = "promoted"


\* ---------------------------------------------------------------------------
\* C11 (Once): the task is started at most once; a Call that has returned
\* finds the task started once and over, also when the caller did not run it
\* and when it never entered the slow path; one caller at most ran the task.
C11_Once ==
  /\ ran.started <= 1
  /\ ran.over <= ran.started
  /\ Cardinality({t \in Callers : oc[t].did}) <= 1
  /\ \A t \in Callers : oc[t].pc = "Ret" => ran.started = 1 /\ ran.over = 1

\* a caller that waited for mu_ on the slow path and returned without running
\* the task
C11_Witness ==
  \E t \in Callers : oc[t].pc = "Ret" /\ oc[t].slow /\ ~oc[t].did

\* the callers inside the callable of SingleCall, and inside its guarded region
InCallable == {t \in Callers : sc[t].op = "SingleCall" /\ sc[t].pc = "Call"}
Guarded == {t \in Callers : sc[t].op = "SingleCall" /\ sc[t].pc \in {"Call", "Exit"}}

\* ---------------------------------------------------------------------------
\* C12 (SingleCall excludes): one thread at most is inside the callable; a
\* SingleCall that returned false did not run it, one that returned true ran
\* it once, one left by the callable's exception ran it once; and a SingleCall
\* begun while a thread is inside the callable returns false in that same step.
C12_SingleCall ==
  /\ [](/\ Cardinality(InCallable) <= 1
        /\ \A t \in Callers :
             sc[t].op = "SingleCall" /\ sc[t].pc = "Ret"
               => sc[t].calls = (IF sc[t].ret \/ sc[t].threw THEN 1 ELSE 0))
  /\ [][\A t \in Callers :
          sc[t].pc = "Idle" /\ sc'[t].op = "SingleCall" /\ InCallable # {}
            => sc'[t].pc = "Ret" /\ ~sc'[t].ret /\ sc'[t].calls = 0]_vars

\* a SingleCall has returned false while another caller is inside the callable
C12_Witness ==
  \E t \in Callers :
    /\ sc[t].op = "SingleCall" /\ sc[t].pc = "Ret" /\ ~sc[t].ret /\ ~sc[t].threw
    /\ InCallable # {}

\* ---------------------------------------------------------------------------
\* C13 (scope guard): a DeferGuard has run its routine once when its scope was
\* left, by its end or by an exception, and not at all after Cancel; the flag
\* of SingleCall is true exactly while a caller is in the guarded region: the
\* step that leaves the region resets it, a SingleCall that lost the
\* compare_exchange leaves it as it is.
C13_DeferReset ==
  /\ [](/\ \A t \in Callers :
             sc[t].pc = "Ret" /\ sc[t].op = "ChangeNumber"
               => sc[t].routines = (IF sc[t].cancel THEN 0 ELSE 1)
        /\ \A t \in Callers :
             sc[t].pc = "Ret" /\ sc[t].op = "SingleCall"
               => sc[t].routines = sc[t].calls
        /\ doCall <=> Guarded # {})
  /\ [][\A t \in Callers :
          /\ sc[t].pc = "Exit" /\ sc'[t].pc = "Ret" => ~doCall'
          /\ sc[t].pc = "Idle" /\ sc'[t].pc = "Ret" => doCall /\ doCall']_vars

\* a SingleCall left by the exception of its callable, the flag false again,
\* and a later SingleCall inside the callable
C13_Witness ==
  /\ \E t \in Callers :
       sc[t].op = "SingleCall" /\ sc[t].pc = "Ret" /\ sc[t].threw /\ sc[t].routines = 1
  /\ \E t \in Callers : sc[t].op = "ChangeNumber" /\ sc[t].pc = "Ret" /\ sc[t].cancel

\* the callers whose callback is executing
InCallback == {t \in Callers : lc[t].pc \in {"FE_func", "FR_func", "FR_func2"}}
\* how often ForEach gave v to its callback
Visits(r, v) == Cardinality({i \in 1..Len(r.given) : r.given[i] = v})

\* ---------------------------------------------------------------------------
\* C14 (List): bufferMut_ is never owned by a thread whose callback is
\* executing; its owner is always at the one step that releases it, so that
\* Add is never kept waiting for a traversal; the callback of ForEach is given
\* the values in the order in which they were added, none twice; and a ForEach
\* that has returned has visited every value added before it began, unless
\* ForEachRemove dropped the value.
C14_List ==
  /\ bufferMut_ \notin InCallback
  /\ bufferMut_ # NoThread => lc[bufferMut_].pc \in {"Add", "FE_move", "FR_move"}
  /\ \A t \in Callers :
       /\ \A i, j \in 1..Len(lc[t].given) : i < j => lc[t].given[i] < lc[t].given[j]
       /\ lc[t].op = "ForEach" /\ lc[t].pc = "Ret"
            => \A v \in 1..lc[t].pre : v \in lo.dropped \/ Visits(lc[t], v) = 1

\* a ForEach has returned after visiting two values added before it began,
\* while a later Add went through and another thread's callback is executing
C14_Witness ==
  \E t \in Callers :
    /\ lc[t].op = "ForEach" /\ lc[t].pc = "Ret"
    /\ lc[t].pre >= 2 /\ Len(lc[t].given) >= 2
    /\ lo.added > lc[t].pre
    /\ InCallback # {}

\* ---------------------------------------------------------------------------
\* C15 (TryLoadOrStore is race-free): LoadOrStore never dereferences a null
\* actual; what it returns is a value, and with loaded = false the caller's
\* own value.
C15_TryLoadOrStoreRaceFree ==
  \A t \in Threads :
    th[t].op = "LoadOrStore"
      => /\ th[t].pc # "Crash"
         /\ th[t].pc = "Ret" => /\ th[t].out # NoVal
                                /\ ~th[t].ret => th[t].out = th[t].val

\* the Entry under k in the published table and in dirty_, and an Entry's tag
ReadEntry(k) == tables[read_m][k]
DirtyEntry(k) == IF dirty_ = NoTable THEN NoEntry ELSE tables[dirty_][k]
StateOf(k, e) == ent[k][e].state

\* ---------------------------------------------------------------------------
\* C16 (overlay invariant): whenever dirty_ exists and mu_ is free, every key
\* of the published table whose Entry is not expunged is in dirty_ with that
\* same Entry, and no Entry of dirty_ is expunged.
C16_Overlay ==
  dirty_ # NoTable /\ mu_ = NoThread
    => \A k \in Keys :
         /\ ReadEntry(k) # NoEntry /\ StateOf(k, ReadEntry(k)) # "kExpunged"
              => DirtyEntry(k) = ReadEntry(k)
         /\ DirtyEntry(k) # NoEntry => StateOf(k, DirtyEntry(k)) # "kExpunged"

\* dirty_ has been built from a published table with a live Entry: the key is
\* in both with the same Entry, the key that made dirty_ necessary is in
\* dirty_ alone, and a call of the other thread is running
C16_Witness ==
  /\ dirty_ # NoTable /\ mu_ = NoThread
  /\ \E k \in Keys :
       /\ ReadEntry(k) # NoEntry /\ DirtyEntry(k) = ReadEntry(k)
       /\ StateOf(k, ReadEntry(k)) # "kExpunged"
  /\ \E k \in Keys : ReadEntry(k) = NoEntry /\ DirtyEntry(k) # NoEntry
  /\ \E t \in Threads : InFlight(th[t])

\* thread t holds an Entry, at one of the points pcs of its call
Holds(t, pcs) == th[t].pc \in pcs /\ th[t].entry # NoEntry

\* ---------------------------------------------------------------------------
\* C17 (Expunged is left by UnexpungeLocked only): an Entry that is still
\* referenced goes from kExpunged to nothing but kNull, and only in the
\* compare_exchange of UnexpungeLocked made by the owner of mu_; StoreLocked
\* is never entered on an expunged Entry; TryStore, TryLoadOrStore, Load and
\* Delete that find kExpunged go on to the slow path (TryStore, TryLoadOrStore)
\* or return not-found (Load, Delete).
C17_ExpungedStays ==
  /\ [](\A t \in Threads :
          Holds(t, {"SL_load", "SL_cas"}) => Ent(th[t]).state # "kExpunged")
  /\ [][\A k \in Keys, i \in Slots :
          ent[k][i].state = "kExpunged" /\ ent'[k][i].state # "kExpunged"
            => \/ i \in FreeSlots(k)'
               \/ /\ ent'[k][i].state = "kNull"
                  /\ mu_ # NoThread
                  /\ th[mu_].pc = "UX_cas" /\ th[mu_].key = k /\ th[mu_].entry = i]_vars
  /\ [][\A t \in Threads :
          /\ th[t].entry # NoEntry
          /\ Ent(th[t]).state = "kExpunged"
          /\ th'[t].pc # th[t].pc
          => /\ th[t].pc \in {"TS_load", "TS_cas"} => th'[t].pc = "St_lock"
             /\ th[t].pc \in {"TL_load", "TL_cas"} => th'[t].pc = "Lo_lock"
             /\ th[t].pc \in {"Load_state", "DE_load", "DE_cas"}
                  => th'[t].pc = "Ret" /\ ~th'[t].ret
             /\ th[t].pc = "TE_cas" => ent'[th[t].ik][th[t].entry].state = "kExpunged"]_vars

\* Store found its key's Entry expunged in the published table, and under mu_
\* UnexpungeLocked has just made it kNull
C17_Witness ==
  \E t \in Threads :
    /\ th[t].op = "Store" /\ th[t].pc = "UX_ptr" /\ mu_ = t
    /\ Ent(th[t]).state = "kNull"

\* the tables that are published or that a thread holds as its copy of read_
Snapshots == ({read_m} \cup {th[t].rm : t \in Threads}) \ {NoTable}

\* ---------------------------------------------------------------------------
\* C18 (a published table is immutable): a table that is published, or that a
\* thread holds as its snapshot, keeps its keys and their entries for as long
\* as it is referenced; and read_ (table and amended flag) is never replaced
\* by a step of a thread while another thread owns mu_.
C18_SnapshotImmutable ==
  /\ [][\A i \in Snapshots :
          i \in LiveTables(read_m, dirty_, th)' => tables'[i] = tables[i]]_vars
  /\ [][read_m' # read_m \/ read_amended' # read_amended
          => \E t \in Threads : th'[t].pc # th[t].pc /\ mu_ \in {NoThread, t}]_vars
  /\ [](dirty_ # NoTable => dirty_ \notin Snapshots)

\* Range goes through a snapshot that has been replaced since, while dirty_
\* holds a key the snapshot does not
C18_Witness ==
  \E t \in Threads :
    /\ th[t].op = "Range"
    /\ th[t].rm # NoTable /\ th[t].rm # read_m
    /\ KeysOf(tables[th[t].rm]) # {}
    /\ KeysOf(tables[th[t].rm]) # KeysOf(tables[read_m])

\* ---------------------------------------------------------------------------
\* C19 (Delete erases from dirty_ only): the critical section of a Delete that
\* finds its key in dirty_ alone leaves the key in neither dirty_ nor the
\* published table, promoted or not; the steps of a Delete that found its key
\* in the published table change no table, pointer or counter of the Map and
\* make the tag kNull; and DirtyLocked, meeting an Entry that is kNull, makes
\* it kExpunged and leaves its key out of dirty_.
C19_DeleteErases ==
  /\ [][\A t \in Threads :
          /\ th[t].pc = "Dl_lock" /\ th'[t].pc # "Dl_lock"
          /\ ReadEntry(th[t].key) = NoEntry /\ DirtyEntry(th[t].key) # NoEntry
          => /\ tables'[read_m'][th[t].key] = NoEntry
             /\ dirty_' # NoTable => tables'[dirty_'][th[t].key] = NoEntry
             /\ th'[t].entry = DirtyEntry(th[t].key)]_vars
  /\ [][\A t \in Threads :
          /\ th[t].op = "Delete" /\ th[t].path \in {"fast", "slow_read"}
          /\ th'[t].pc # th[t].pc
          => /\ UNCHANGED <<read_m, read_amended, dirty_, misses_>>
             /\ \A i \in LiveTables(read_m, dirty_, th)' : tables'[i] = tables[i]
             /\ th[t].pc = "DE_cas" /\ th'[t].pc = "DE_ptr"
                  => ent'[th[t].key][th[t].entry].state = "kNull"]_vars
  /\ [][\A t \in Threads :
          th[t].pc = "TE_cas" /\ th'[t].pc # "TE_cas" /\ Ent(th[t]).state = "kNull"
            => /\ ent'[th[t].ik][th[t].entry].state = "kExpunged"
               /\ tables'[dirty_'][th[t].ik] = NoEntry]_vars

\* a Delete has found its key in dirty_ alone, erased it and promoted dirty_
\* with its miss: the new published table is without the key
C19_Witness ==
  \E t \in Threads :
    /\ th[t].op = "Delete" /\ th[t].pc = "Ret" /\ th[t].ret
    /\ th[t].path = "promoted"
    /\ ReadEntry(th[t].key) = NoEntry
    /\ KeysOf(tables[read_m]) # {}

\* one call of MissLocked: the miss is counted, or it was the one that
\* promotes dirty_
OneMiss ==
  \/ MissCounted
  \/ /\ misses_ + 1 >= TableSize(tables[dirty_])
     /\ misses_' = 0 /\ read_m' = dirty_ /\ dirty_' = NoTable /\ ~read_amended'

\* ---------------------------------------------------------------------------
\* C20 (misses of Load): Load goes for mu_ exactly if its key is not in the
\* published table and the snapshot is amended; outside its critical section
\* no step of Load changes read_, dirty_, misses_ or the owner of mu_; and
\* the critical section records one miss if, looking again, the key is still
\* not in the published table and the snapshot still amended, whether dirty_
\* has the key or not, and none otherwise.
C20_LoadMisses ==
  /\ [][\A t \in Threads :
          th[t].pc = "Idle" /\ th'[t].op = "Load" /\ th'[t].pc # "Idle"
            => (th'[t].pc = "Load_lock")
                 = (ReadEntry(th'[t].key) = NoEntry /\ read_amended)]_vars
  /\ [][\A t \in Threads :
          /\ th'[t].op = "Load" /\ th'[t].pc # th[t].pc
          /\ th[t].pc \notin {"Load_lock", "Ret"}
          => /\ UNCHANGED <<read_m, read_amended, dirty_, misses_, mu_>>
             /\ \A i \in LiveTables(read_m, dirty_, th)' : tables'[i] = tables[i]]_vars
  /\ [][\A t \in Threads :
          th[t].pc = "Load_lock" /\ th'[t].pc # "Load_lock"
            => /\ mu_ = NoThread /\ mu_' = NoThread
               /\ IF ReadEntry(th[t].key) = NoEntry /\ read_amended
                  THEN OneMiss
                  ELSE UNCHANGED <<read_m, read_amended, dirty_, misses_>>]_vars

\* a Load has found its key in dirty_ under mu_, and its miss is counted
C20_Witness ==
  \E t \in Threads :
    /\ th[t].op = "Load" /\ th[t].pc = "Ret" /\ th[t].ret
    /\ th[t].path = "miss"
    /\ misses_ > 0

\* ------------------------------------------------------- running to the end
\* the steps of thread t inside a call it has made, and its leaving the call:
\* what the scheduler owes the thread.  Making a call is the caller's choice.
Run(t) ==
  \/ LoadLock(t)
  \/ LoadState(t)
  \/ LoadPtr(t)
  \/ TryStoreLoad(t)
  \/ TryStoreCas(t)
  \/ TryStorePtr(t)
  \/ StoreLock(t)
  \/ TryExpungeLoad(t)
  \/ TryExpungeCas(t)
  \/ StoreAmend(t)
  \/ UnexpungeCas(t)
  \/ UnexpungePtr(t)
  \/ StoreLockedLoad(t)
  \/ StoreLockedCas(t)
  \/ StoreLockedPtr(t)
  \/ TryLoadOrStoreLoad(t)
  \/ TryLoadOrStoreCas(t)
  \/ TryLoadOrStorePtrW(t)
  \/ TryLoadOrStorePtrR(t)
  \/ LoadOrStoreMiss(t)
  \/ LoadOrStoreLock(t)
  \/ LoadOrStoreAmend(t)
  \/ DeleteLock(t)
  \/ EntryDeleteLoad(t)
  \/ EntryDeleteCas(t)
  \/ EntryDeletePtr(t)
  \/ RangeLock(t)
  \/ RangePromote(t)
  \/ RangeState(t)
  \/ RangePtr(t)
  \/ \E go_on \in BOOLEAN : RangeCall(t, go_on)
  \/ ResetState(t)
  \/ ResetPtr(t)
  \/ Leave(t)

\* every thread that can go on in its call does so in the end
FairSpec == Spec /\ \A t \in Threads : WF_vars(Run(t))

\* no thread makes a new call in this step
NoBegin == \A t \in Threads : ~(th[t].pc = "Idle" /\ th'[t].pc # "Idle")
\* each thread makes finitely many calls: from some point on no call is made
FiniteCalls == <>[][NoBegin]_vars

\* a call is in flight and no thread can take a step
Stuck == (\E t \in Threads : th[t].pc \notin {"Idle", "Ret"})
           /\ \A t \in Threads : ~ENABLED Run(t)

\* the compare_exchange loops: thread t is in one, about to try again
InCasLoop(t) == th[t].pc \in {"TS_cas", "SL_cas", "TL_cas", "DE_cas", "TE_cas"}

\* C21: under weak fairness of each thread and finitely many calls, every call
\* that was made returns; no reachable state with a call in flight leaves all
\* threads unable to step (mu_, the lock of read_ and the Entry guards never
\* deadlock); every compare_exchange loop is left.
C21_RunsToCompletion ==
  /\ []~Stuck
  /\ FiniteCalls =>
       \A t \in Threads :
         /\ [](th[t].pc # "Idle" => <>(th[t].pc = "Ret"))
         /\ [](InCasLoop(t) => <>~InCasLoop(t))

\* the entries of the table `before` a predicator true on pred is to remove
ToRemove(before, pred) == HKeysOf(before) \cap pred

\* C22: RemoveIf with a non-empty predicator calls it exactly once on every
\* entry of the table, removes exactly the entries it is true on and leaves the
\* others as they were, never advances the iterator beyond map_.end() (or dies
\* doing so), and returns the number of entries removed, so that the size
\* after is the size before less the count.
C22_RemoveIf ==
  \A t \in Threads :
    /\ ~hc[t].past
    /\ hc[t].pc # "Crash"
    /\ hc[t].pc = "Ret" /\ hc[t].op = "RemoveIf" /\ hc[t].status = "given"
         => LET h == hc[t]
                gone == ToRemove(h.before, h.pred)
            IN  /\ \A k \in HKeysOf(h.before) : h.evals[k] = "once"
                /\ map_ = [k \in HKeys |-> IF k \in gone THEN NoVal ELSE h.before[k]]
                /\ h.count = Cardinality(gone)
                /\ Cardinality(HKeysOf(map_)) = Cardinality(HKeysOf(h.before)) - h.count

\* the positions at which a call dereferences dirty_ with no test of it but an
\* assertion: the slow paths of Load (lines 266-270, 435-436) and Delete (lines
\* 356-361), Store and LoadOrStore after UnexpungeLocked (lines 229-230, 313-
\* 314) and before the insertion (lines 242-243, 334-335), Range (line 407)
DerefsDirty == {"Load_lock", "Dl_lock", "UX_ptr", "St_lock", "Lo_lock", "Amend", "Rg_promote"}

\* an Entry of the published table is expunged
ReadHasExpunged == \E k \in KeysOf(tables[read_m]) : ent[k][tables[read_m][k]].state = "kExpunged"

\* C23: whenever mu_ is free, read_.amended is true exactly if dirty_ is set,
\* and with no dirty_ the miss counter is 0 and no Entry of the published
\* table is expunged; so no call that dereferences dirty_ on the strength of
\* amended (or after an unexpunge) meets a null dirty_.
C23_AmendedAgrees ==
  /\ [](mu_ = NoThread =>
          /\ read_amended <=> dirty_ # NoTable
          /\ dirty_ = NoTable => misses_ = 0 /\ ~ReadHasExpunged)
  /\ [][\A t \in Threads :
          th[t].pc \in DerefsDirty => th'[t].pc # "Crash"]_vars

\* a Store unexpunged an Entry and put it back under dirty_, and dirty_ was there
C23_Witness ==
  \E t \in Threads :
    /\ th[t].op = "Store" /\ th[t].path = "unexpunged" /\ th[t].pc = "Ret"
    /\ mu_ = NoThread /\ read_amended /\ dirty_ # NoTable
    /\ tables[dirty_][th[t].key] # NoEntry

\* C24: a Store(k, v) and a Reset(raw) that ran together, with no other call
\* that may change the Map made from the start of the first to the return of
\* the last: when both have returned, raw holds v under k or a Load(k) finds v.
\* A Store on the fast path, on a snapshot of read_ from before the Reset, is
\* not dropped into an Entry that is neither drained nor in the Map.
C24_NoLostWrite ==
  \A t \in Threads :
    th[t].pc = "Ret" =>
      /\ th[t].op = "Store" /\ th[t].co.kind = "Reset"
           => th[t].co.raw[th[t].key] = th[t].val \/ View(th[t].key) = th[t].val
      /\ th[t].op = "Reset" /\ th[t].co.kind = "Store"
           => th[t].raw[th[t].co.key] = th[t].co.val \/ View(th[t].co.key) = th[t].co.val

\* no CachedMap operation is in progress
Quiescent == \A t \in Threads : cc[t].pc \in {"Idle", "Ret"}

\* the value the read cache holds for key k (for a cached key)
Cached(k) == centry[k][readMap_[k]]

\* C25: in every quiescent state each key of the read cache has there the
\* value it has in the write table (null: write_ has not got the key); so a Get
\* that ran with no other call beside it returns what write_ holds, also after
\* a Put that ran together with a Get that missed the cache.
C25_CacheCoherent ==
  /\ Quiescent => \A k \in CKeys : readMap_[k] # NoEntry => Cached(k) = write_[k]
  /\ \A t \in Threads :
       cc[t].pc = "Ret" /\ cc[t].op = "Get" /\ cc[t].alone
         => cc[t].out = write_[cc[t].key] /\ cc[t].ret = (write_[cc[t].key] # NoVal)
====
